---------------------------- MODULE Spec2Model ----------------------------
(***************************************************************************)
(* Model of the evaluation-result pipeline of                              *)
(* Agent-evaluation-samples/evaluation-results/eval-auto.py:               *)
(*   extract_evaluations  (recursive record extraction from JSON trees),   *)
(*   compute_statistics   (overall and per-evaluator aggregation),         *)
(*   batch_evaluations    (fixed-size partitioning).                       *)
(*                                                                         *)
(* JSON values are records [k |-> kind, v |-> payload] with kind one of    *)
(* "null", "bool", "num", "str", "list", "dict".  A list's payload is the  *)
(* sequence of its items; a dict's payload is the sequence of its          *)
(* <<key, value>> pairs in document (insertion) order, keys distinct.      *)
(* Numbers are integers counted in tenths (Num(7) is the float 0.7).       *)
(* A Python metadata dict is a function from key strings to JSON values.   *)
(***************************************************************************)
EXTENDS Integers, Sequences, FiniteSets, TLC

VARIABLES pc, data, parent_metadata, evaluations, threshold, stats,
          batch_size, batches, evaluation_data, dashboard_file, printed,
          EVALUATION_DATA, charts, evaluatorsTable, csv,
          auto, ondemand, bysession, pipeline

vars == <<pc, data, parent_metadata, evaluations, threshold, stats,
          batch_size, batches, evaluation_data, dashboard_file, printed,
          EVALUATION_DATA, charts, evaluatorsTable, csv,
          auto, ondemand, bysession, pipeline>>

\* The variables of the scripts: the files and the run of eval-auto.py, and
\* the runs of on-demand.py, eval-by-sessionid.py and eval-by-pipeline.py.
scripts == <<auto, ondemand, bysession, pipeline>>

\* The variables of the dashboard: the argument of generate_dashboard, the
\* path it returns and what it prints, and the page of the file it writes.
dashboard ==
    <<evaluation_data, dashboard_file, printed,
      EVALUATION_DATA, charts, evaluatorsTable, csv>>

(***************************************************************************)
(* JSON values                                                             *)
(***************************************************************************)
Null == [k |-> "null", v |-> 0]
Bool(b) == [k |-> "bool", v |-> b]
Num(n) == [k |-> "num", v |-> n]
Str(s) == [k |-> "str", v |-> s]
Lst(items) == [k |-> "list", v |-> items]
Dct(pairs) == [k |-> "dict", v |-> pairs]

\* The empty Python dict {}.
EmptyDict == <<>>

\* `key in data` for a dict.
HasKey(d, key) == \E i \in 1..Len(d.v) : d.v[i][1] = key

\* `data[key]` for a dict that has the key.
Get(d, key) == d.v[CHOOSE i \in 1..Len(d.v) : d.v[i][1] = key][2]

(***************************************************************************)
(* extract_evaluations                                                     *)
(***************************************************************************)
\* The keys copied from a non-record mapping into the inherited context.
ContextKeys == <<"session_id", "trace_id", "evaluator_name", "evaluator_id">>

\* (mutant) the container keys visited in another order.
ContainerKeys_reordered == <<"items", "data", "evaluations", "results">>

\* The keys of a non-record mapping the extraction descends into, in the
\* order the code visits them.
ContainerKeys == <<"results", "evaluations", "data", "items">>

\* The keys of a record mapping never copied into its metadata.
ExcludedKeys == {"score", "value", "explanation"}

\* (mutant) everything but a list or a dict passes, None too.
IsScalar_not_container(val) == val.k \notin {"list", "dict"}

\* isinstance(val, (str, int, float, bool)); None, lists and dicts are not.
IsScalar(val) == val.k \in {"str", "num", "bool"}

\* (mutant) `value` preferred to `score`.
score_key_value_first(d) ==
    IF HasKey(d, "value") THEN "value"
    ELSE IF HasKey(d, "score") THEN "score"
    ELSE "None"

\* score_key: 'score' if present, else 'value' if present, else None.
score_key(d) ==
    IF HasKey(d, "score") THEN "score"
    ELSE IF HasKey(d, "value") THEN "value"
    ELSE "None"

\* `if score_key and 'explanation' in data`.
IsRecord(d) == score_key(d) # "None" /\ HasKey(d, "explanation")

\* The loop `for key, val in data.items()` over the first n pairs, writing
\* the scalar fields other than the excluded ones into the metadata.
RECURSIVE CopyFields(_, _, _)
CopyFields(d, meta, n) ==
    IF n = 0 THEN meta
    ELSE LET prev == CopyFields(d, meta, n - 1)
             key == d.v[n][1]
             val == d.v[n][2]
         IN IF key \notin ExcludedKeys /\ IsScalar(val)
            THEN (key :> val) @@ prev
            ELSE prev

\* The record built for a record mapping.
eval_entry(d, parent) ==
    [score |-> Get(d, score_key(d)),
     explanation |-> Get(d, "explanation"),
     metadata |-> CopyFields(d, parent, Len(d.v))]

\* The loop over the context keys: the first n of them, copied when present
\* (whatever their value is).
RECURSIVE CopyContext(_, _, _)
CopyContext(d, meta, n) ==
    IF n = 0 THEN meta
    ELSE LET prev == CopyContext(d, meta, n - 1)
             key == ContextKeys[n]
         IN IF HasKey(d, key) THEN (key :> Get(d, key)) @@ prev ELSE prev

\* (mutant) a key the inherited context already holds is not overwritten.
nested_metadata_keep_inherited(d, parent) ==
    parent @@ CopyContext(d, EmptyDict, Len(ContextKeys))

\* nested_metadata: a copy of the inherited context, extended with the
\* context keys of the mapping.
nested_metadata(d, parent) == CopyContext(d, parent, Len(ContextKeys))

RECURSIVE extract_evaluations(_, _)
\* `for item in data` over the first n items of a list.
RECURSIVE ExtractItems(_, _, _)
ExtractItems(items, parent, n) ==
    IF n = 0 THEN <<>>
    ELSE ExtractItems(items, parent, n - 1)
             \o extract_evaluations(items[n], parent)

\* (mutant) the descent goes into every field of the mapping.
RECURSIVE ExtractFields(_, _, _)
ExtractFields(d, nested, n) ==
    IF n = 0 THEN <<>>
    ELSE ExtractFields(d, nested, n - 1)
             \o extract_evaluations(d.v[n][2], nested)

ExtractContainers_every_field(d, nested, n) == ExtractFields(d, nested, Len(d.v))

\* The loop over the first n container keys of a non-record mapping.
RECURSIVE ExtractContainers(_, _, _)
ExtractContainers(d, nested, n) ==
    IF n = 0 THEN <<>>
    ELSE ExtractContainers(d, nested, n - 1)
             \o (IF HasKey(d, ContainerKeys[n])
                 THEN extract_evaluations(Get(d, ContainerKeys[n]), nested)
                 ELSE <<>>)

extract_evaluations(d, parent) ==
    IF d.k = "list" THEN ExtractItems(d.v, parent, Len(d.v))
    ELSE IF d.k = "dict"
         THEN IF IsRecord(d)
              THEN <<eval_entry(d, parent)>>
              ELSE ExtractContainers(d, nested_metadata(d, parent),
                                     Len(ContainerKeys))
         ELSE <<>>

(***************************************************************************)
(* compute_statistics                                                      *)
(*                                                                         *)
(* A call either returns a value or raises: [raised |-> "", value |-> x]   *)
(* or [raised |-> exception name, value |-> None].  Rounded results are    *)
(* numbers Num(n) with n counted in thousandths (round(x, 3)) and, for     *)
(* low_scoring_pct, in tenths of a percent (round(x, 1)); None is Null.    *)
(***************************************************************************)
None == Null

Return(x) == [raised |-> "", value |-> x]

Raise(exception) == [raised |-> exception, value |-> None]

\* What mean, min, max and `<` take as a number: int, float and bool.
IsNumeric(val) == val.k \in {"num", "bool"}

\* The value of a number in tenths; True is 1.0 and False is 0.0.
NumVal(val) == IF val.k = "bool" THEN (IF val.v THEN 10 ELSE 0) ELSE val.v

RECURSIVE Sum(_)
Sum(xs) == IF xs = <<>> THEN 0 ELSE Head(xs) + Sum(Tail(xs))

SumSquares(xs) == Sum([i \in 1..Len(xs) |-> xs[i] * xs[i]])

Min(xs) == CHOOSE x \in { xs[i] : i \in 1..Len(xs) } :
               \A i \in 1..Len(xs) : x <= xs[i]

Max(xs) == CHOOSE x \in { xs[i] : i \in 1..Len(xs) } :
               \A i \in 1..Len(xs) : x >= xs[i]

\* (mutant) a / b for b > 0 cut to the integer below.
Round_down(a, b) == a \div b

\* round(a / b) for b > 0: the nearest integer, a tie going to the even one.
Round(a, b) ==
    LET q == a \div b
        r == a % b
    IN IF 2 * r < b THEN q
       ELSE IF 2 * r > b THEN q + 1
       ELSE IF q % 2 = 0 THEN q ELSE q + 1

\* The least r in lo..hi with a / b < (r + 1/2)^2: the square root of a / b
\* rounded to the nearest integer.
RECURSIVE RoundSqrt(_, _, _, _)
RoundSqrt(lo, hi, a, b) ==
    IF lo >= hi THEN lo
    ELSE LET mid == (lo + hi) \div 2
         IN IF 4 * a < (2 * mid + 1) * (2 * mid + 1) * b
            THEN RoundSqrt(lo, mid, a, b)
            ELSE RoundSqrt(mid + 1, hi, a, b)

\* round(mean(xs), 3) of scores in tenths, in thousandths.
mean(xs) == Num(Round(100 * Sum(xs), Len(xs)))

\* round(min(xs), 3) and round(max(xs), 3).
min(xs) == Num(100 * Min(xs))

max(xs) == Num(100 * Max(xs))

\* round(stdev(xs), 3): the sample (n - 1) standard deviation, for two
\* scores or more.
stdev(xs) ==
    LET n == Len(xs)
        q == n * SumSquares(xs) - Sum(xs) * Sum(xs)
    IN Num(RoundSqrt(0, 100 * (Max(xs) - Min(xs)), 10000 * q, n * (n - 1)))

\* (mutant) `label` looked up before `evaluator_name`.
evaluator_of_label_first(e) ==
    IF "label" \in DOMAIN e.metadata THEN e.metadata["label"]
    ELSE IF "evaluator_name" \in DOMAIN e.metadata
         THEN e.metadata["evaluator_name"]
    ELSE Str("unknown")

\* e['metadata'].get('evaluator_name', e['metadata'].get('label', 'unknown')).
evaluator_of(e) ==
    IF "evaluator_name" \in DOMAIN e.metadata THEN e.metadata["evaluator_name"]
    ELSE IF "label" \in DOMAIN e.metadata THEN e.metadata["label"]
    ELSE Str("unknown")

\* (mutant) every record, a missing score taken as 0.
Scored_none_as_zero(evals) ==
    [i \in 1..Len(evals) |->
        IF evals[i].score = None THEN [evals[i] EXCEPT !.score = Num(0)]
        ELSE evals[i]]

\* The records with a score that is not None.
Scored(evals) == SelectSeq(evals, LAMBDA e : e.score # None)

\* (mutant) the scores of all the evaluator's records, a missing one as 0.
eval_scores_every_record(evals, evaluator) ==
    LET mine == SelectSeq(evals, LAMBDA e : evaluator_of(e) = evaluator)
    IN [i \in 1..Len(mine) |->
           IF mine[i].score = None THEN 0 ELSE NumVal(mine[i].score)]

\* by_evaluator[evaluator]: the scores of the evaluator's scored records.
eval_scores(evals, evaluator) ==
    LET mine == SelectSeq(Scored(evals), LAMBDA e : evaluator_of(e) = evaluator)
    IN [i \in 1..Len(mine) |-> NumVal(mine[i].score)]

\* (mutant) `stdev` is a key for a single score too.
evaluator_stats_always_stdev(xs) ==
    [count |-> Len(xs), mean |-> mean(xs), min |-> min(xs), max |-> max(xs),
     stdev |-> IF Len(xs) > 1 THEN stdev(xs) ELSE Num(0)]

\* evaluator_stats[evaluator]; `stdev` is a key only for two scores or more.
evaluator_stats(xs) ==
    LET base == [count |-> Len(xs), mean |-> mean(xs),
                 min |-> min(xs), max |-> max(xs)]
    IN IF Len(xs) > 1 THEN ("stdev" :> stdev(xs)) @@ base ELSE base

\* (mutant) a record without a score counts as low.
low_scoring_with_none(evals, thr) ==
    SelectSeq(evals, LAMBDA e : e.score = None \/ NumVal(e.score) < thr)

\* (mutant) a score equal to the threshold counts as low.
low_scoring_inclusive(evals, thr) ==
    SelectSeq(evals, LAMBDA e : e.score # None /\ NumVal(e.score) <= thr)

\* low_scoring: the records with a score below the threshold.
low_scoring(evals, thr) ==
    SelectSeq(evals, LAMBDA e : e.score # None /\ NumVal(e.score) < thr)

\* The function after its guard for the empty list.  mean() and min()
\* raise TypeError on a score that is not a number, and a list or dict
\* cannot be a key of by_evaluator.
Aggregate(evals, thr) ==
    LET scored == Scored(evals)
        scores == [i \in 1..Len(scored) |-> NumVal(scored[i].score)]
        evaluators == { evaluator_of(scored[i]) : i \in 1..Len(scored) }
    IN IF \E i \in 1..Len(scored) :
              \/ ~IsNumeric(scored[i].score)
              \/ evaluator_of(scored[i]).k \in {"list", "dict"}
       THEN Raise("TypeError")
       ELSE Return(
           [total |-> Len(evals),
            valid_scores |-> Len(scores),
            mean_score |-> IF scores # <<>> THEN mean(scores) ELSE None,
            min_score |-> IF scores # <<>> THEN min(scores) ELSE None,
            max_score |-> IF scores # <<>> THEN max(scores) ELSE None,
            stdev |-> IF Len(scores) > 1 THEN stdev(scores) ELSE None,
            low_scoring_count |-> Len(low_scoring(evals, thr)),
            low_scoring_pct |->
                IF scores # <<>>
                THEN Num(Round(1000 * Len(low_scoring(evals, thr)), Len(scores)))
                ELSE Num(0),
            by_evaluator |->
                [ev \in evaluators |-> evaluator_stats(eval_scores(evals, ev))],
            threshold |-> thr])

\* (mutant) the guard for the empty list left out.
compute_statistics_unguarded(evals, thr) == Aggregate(evals, thr)

compute_statistics(evals, thr) ==
    IF evals = <<>>
    THEN Return([total |-> 0, error |-> "No evaluations found"])
    ELSE Aggregate(evals, thr)

(***************************************************************************)
(* batch_evaluations                                                       *)
(***************************************************************************)
\* range(0, stop, step) without the start of a last, shorter slice.
range_full_slices(stop, step) ==
    IF step > 0
    THEN [i \in 1..(stop \div step) |-> (i - 1) * step]
    ELSE <<>>

\* range(0, stop, step) with a start even when stop is 0.
range_never_empty(stop, step) ==
    IF step > 0
    THEN [i \in 1..((stop + step) \div step) |-> (i - 1) * step]
    ELSE <<>>

\* The values of range(0, stop, step) for a step that is not 0.
range(stop, step) ==
    IF step > 0
    THEN [i \in 1..((stop + step - 1) \div step) |-> (i - 1) * step]
    ELSE <<>>

\* evaluations[i:i+batch_size] for 0 <= i < len(evaluations), batch_size > 0.
Slice(evals, i, size) ==
    SubSeq(evals, i + 1, IF i + size < Len(evals) THEN i + size ELSE Len(evals))

\* range() raises ValueError for a step of 0; for a negative step from 0 up
\* to a length it is empty.
batch_evaluations(evals, size) ==
    IF size = 0 THEN Raise("ValueError")
    ELSE LET starts == range(Len(evals), size)
         IN Return([b \in 1..Len(starts) |-> Slice(evals, starts[b], size)])

(***************************************************************************)
(* Input documents of the extraction.  A leaf mapping is a choice, per     *)
(* key, of a value or of the key's absence; composite documents wrap       *)
(* leaves in lists and in mappings, to two levels.                         *)
(***************************************************************************)
\* Longest list of the input documents.
MaxItems == 2

Absent == [k |-> "absent", v |-> 0]

\* The pairs of a mapping: the chosen fields, absent ones left out.
Field(key, val) == IF val = Absent THEN <<>> ELSE << <<key, val>> >>

LeafOf(sc, va, ex, sid, note) ==
    Dct(Field("score", sc) \o Field("value", va) \o Field("explanation", ex)
          \o Field("session_id", sid) \o Field("note", note))

\* Every leaf mapping: all combinations of presence of score, value and
\* explanation, with scalar, null and composite neighbours.
Leaves ==
    { LeafOf(sc, va, ex, sid, note) :
        sc \in {Absent, Num(3), Null},
        va \in {Absent, Num(8), Str("hi")},
        ex \in {Absent, Str("e1")},
        sid \in {Absent, Str("S0"), Null, Lst(<<>>)},
        note \in {Absent, Bool(TRUE), Dct(<<>>)} }

\* The leaves composite documents are built from.
SmallLeaves ==
    { LeafOf(sc, Absent, ex, sid, Absent) :
        sc \in {Absent, Num(3)},
        ex \in {Str("e1"), Str("e2")},
        sid \in {Absent, Str("S0"), Null} }

RecordLeaves ==
    { LeafOf(Num(3), Absent, ex, sid, Absent) :
        ex \in {Str("e1"), Str("e2")}, sid \in {Absent, Str("S0")} }

\* What a wrapping mapping carries beside its child.
Headers ==
    { <<>>,
      << <<"session_id", Str("S1")>> >>,
      << <<"session_id", Str("S2")>> >>,
      << <<"session_id", Null>> >>,
      << <<"evaluator_name", Str("E1")>>, <<"trace_id", Lst(<<>>)>> >>,
      << <<"explanation", Str("p")>> >>,
      << <<"score", Num(1)>>, <<"explanation", Str("p")>> >> }

ChildKeys == {"results", "evaluations", "data", "items", "foo"}

Wrap(hs, ks, xs) == { Dct(h \o << <<key, x>> >>) : h \in hs, key \in ks, x \in xs }

\* The lists of at most MaxItems items of xs.
ListsOf(xs) ==
    { Lst(s) : s \in UNION { [1..n -> xs] : n \in 0..MaxItems } }

\* Mappings with two children under distinct keys, in both orders.
Pairs(ks, xs) ==
    { Dct(<< <<k1, x>>, <<k2, y>> >>) :
        k1 \in ks, k2 \in ks, x \in xs, y \in xs } \
    { Dct(<< <<key, x>>, <<key, y>> >>) : key \in ks, x \in xs, y \in xs }

Level1 ==
    Wrap(Headers, ChildKeys, SmallLeaves)
      \cup ListsOf(SmallLeaves)
      \cup Pairs({"results", "items", "foo"}, RecordLeaves)

\* The level-1 documents that level 2 is built from.
Middle ==
    Wrap({ <<>>, << <<"session_id", Str("S1")>> >>,
           << <<"session_id", Str("S2")>> >> },
         {"results", "foo"}, RecordLeaves)
      \cup { Lst(<<x>>) : x \in RecordLeaves }

Level2 ==
    Wrap(Headers, {"results", "items", "foo"}, Middle)
      \cup ListsOf(Middle)

Scalars == {Null, Num(3), Str("e1")}

Docs == Scalars \cup Leaves \cup Level1 \cup Level2

\* The initial contexts: none (None or {}), the one load_evaluations passes,
\* and one that already carries a contextual identifier.
Contexts ==
    { EmptyDict,
      [source_file |-> Str("a.json")],
      [source_file |-> Str("a.json"), session_id |-> Str("C0")] }

(***************************************************************************)
(* State machine.  The variables a specification does not use keep their   *)
(* idle values.                                                            *)
(***************************************************************************)
Idle == Null

\* No dashboard page is open.
NoDashboard ==
    /\ evaluation_data = Idle
    /\ dashboard_file = ""
    /\ printed = <<>>
    /\ EVALUATION_DATA = <<>>
    /\ charts = Idle
    /\ evaluatorsTable = Idle
    /\ csv = <<>>

\* No script runs.
NoScripts ==
    /\ auto = Idle
    /\ ondemand = Idle
    /\ bysession = Idle
    /\ pipeline = Idle

InitExtract ==
    /\ pc = "extract"
    /\ data \in Docs
    /\ parent_metadata \in Contexts
    /\ evaluations = <<>>
    /\ threshold = 0
    /\ stats = Idle
    /\ batch_size = 0
    /\ batches = Idle
    /\ NoDashboard
    /\ NoScripts

\* A call extract_evaluations(data, parent_metadata).
Extract ==
    /\ pc = "extract"
    /\ evaluations' = extract_evaluations(data, parent_metadata)
    /\ pc' = "extracted"
    /\ UNCHANGED <<data, parent_metadata, threshold, stats, batch_size, batches,
                   dashboard, scripts>>

NextExtract == Extract

SpecExtract == InitExtract /\ [][NextExtract]_vars

(***************************************************************************)
(* extract_evaluations on a store of dict objects.  The metadata dicts of  *)
(* a call are objects: store[ref] is the content of the object ref, the    *)
(* caller's parent_metadata is object 1, and a record holds the reference  *)
(* of its metadata.  This shows which dict a write changes, which the      *)
(* values of extract_evaluations above do not.                             *)
(***************************************************************************)
\* (mutant) the dict itself instead of a copy.
Copy_alias(store, ref) == [store |-> store, ref |-> ref]

\* {**parent_metadata}: a new dict with the content of the object ref.
Copy(store, ref) ==
    [store |-> Append(store, store[ref]), ref |-> Len(store) + 1]

\* obj[key] = val on the object ref.
SetItem(store, ref, key, val) ==
    [store EXCEPT ![ref] = (key :> val) @@ store[ref]]

\* parent_metadata or {}: an empty dict (or None) gives a new empty dict.
OrEmptyDict(store, ref) ==
    IF DOMAIN store[ref] = {}
    THEN [store |-> Append(store, EmptyDict), ref |-> Len(store) + 1]
    ELSE [store |-> store, ref |-> ref]

\* The loop `for key, val in data.items()` over the first n pairs, writing
\* into the record's metadata object.
RECURSIVE SetFields(_, _, _, _)
SetFields(store, d, ref, n) ==
    IF n = 0 THEN store
    ELSE LET prev == SetFields(store, d, ref, n - 1)
             key == d.v[n][1]
             val == d.v[n][2]
         IN IF key \notin ExcludedKeys /\ IsScalar(val)
            THEN SetItem(prev, ref, key, val)
            ELSE prev

\* The loop over the first n context keys, writing into nested_metadata.
RECURSIVE SetContext(_, _, _, _)
SetContext(store, d, ref, n) ==
    IF n = 0 THEN store
    ELSE LET prev == SetContext(store, d, ref, n - 1)
             key == ContextKeys[n]
         IN IF HasKey(d, key) THEN SetItem(prev, ref, key, Get(d, key))
            ELSE prev

\* A call extract_evaluations(d, ref) in a store: the store after the call
\* and the records returned.
RECURSIVE ExtractInStore(_, _, _)
\* `for item in data` over the first n items of a list.
RECURSIVE ExtractItemsInStore(_, _, _, _)
ExtractItemsInStore(store, items, ref, n) ==
    IF n = 0 THEN [store |-> store, evaluations |-> <<>>]
    ELSE LET prev == ExtractItemsInStore(store, items, ref, n - 1)
             item == ExtractInStore(prev.store, items[n], ref)
         IN [store |-> item.store,
             evaluations |-> prev.evaluations \o item.evaluations]

\* The loop over the first n container keys of a non-record mapping.
RECURSIVE ExtractContainersInStore(_, _, _, _)
ExtractContainersInStore(store, d, ref, n) ==
    IF n = 0 THEN [store |-> store, evaluations |-> <<>>]
    ELSE LET prev == ExtractContainersInStore(store, d, ref, n - 1)
         IN IF HasKey(d, ContainerKeys[n])
            THEN LET child == ExtractInStore(prev.store,
                                             Get(d, ContainerKeys[n]), ref)
                 IN [store |-> child.store,
                     evaluations |-> prev.evaluations \o child.evaluations]
            ELSE prev

ExtractInStore(store, d, parent) ==
    LET entered == OrEmptyDict(store, parent)
        copy == Copy(entered.store, entered.ref)
    IN IF d.k = "list"
       THEN ExtractItemsInStore(entered.store, d.v, entered.ref, Len(d.v))
       ELSE IF d.k = "dict"
       THEN IF IsRecord(d)
            THEN [store |-> SetFields(copy.store, d, copy.ref, Len(d.v)),
                  evaluations |->
                      <<[score |-> Get(d, score_key(d)),
                         explanation |-> Get(d, "explanation"),
                         metadata |-> copy.ref]>>]
            ELSE ExtractContainersInStore(
                     SetContext(copy.store, d, copy.ref, Len(ContextKeys)),
                     d, copy.ref, Len(ContainerKeys))
       ELSE [store |-> entered.store, evaluations |-> <<>>]

\* A call extract_evaluations(data, parent_metadata): the records as the
\* caller sees them after the call, and the caller's dict as it then is.
ExtractStore ==
    /\ pc = "extract"
    /\ LET call == ExtractInStore(<<parent_metadata>>, data, 1)
       IN /\ evaluations' =
                [i \in 1..Len(call.evaluations) |->
                   [score |-> call.evaluations[i].score,
                    explanation |-> call.evaluations[i].explanation,
                    metadata |-> call.store[call.evaluations[i].metadata]]]
          /\ parent_metadata' = call.store[1]
    /\ pc' = "extracted"
    /\ UNCHANGED <<data, threshold, stats, batch_size, batches, dashboard,
                   scripts>>

NextExtractStore == ExtractStore

SpecExtractStore == InitExtract /\ [][NextExtractStore]_vars

(***************************************************************************)
(* Inputs of the aggregation and of the partitioning.                      *)
(***************************************************************************)
\* Longest record list given to compute_statistics.
MaxRecs == 3

\* Longest list given to batch_evaluations, and largest batch size.
MaxBatchLen == 4

MaxBatchSize == 3

Rec(sc, meta) == [score |-> sc, explanation |-> Str("x"), metadata |-> meta]

\* Records with scores below, at and above the thresholds, without a score
\* and with a string for a score, of evaluators A, B, L and of none.
Recs ==
    { Rec(sc, meta) :
        sc \in {Num(2), Num(7), Num(8)},
        meta \in {EmptyDict, [evaluator_name |-> Str("A")]} }
    \cup { Rec(None, meta) : meta \in {EmptyDict, [evaluator_name |-> Str("B")]} }
    \cup { Rec(Str("hi"), EmptyDict),
           Rec(Num(2), [label |-> Str("L")]),
           Rec(Num(8), [evaluator_name |-> Str("A"), label |-> Str("L")]) }

\* Records with the scores 0.2, 0.4, 0.6, 0.8.
QuartetRecs ==
    <<Rec(Num(2), EmptyDict), Rec(Num(4), EmptyDict),
      Rec(Num(6), EmptyDict), Rec(Num(8), EmptyDict)>>

RecordLists == UNION { [1..n -> Recs] : n \in 0..MaxRecs } \cup {QuartetRecs}

\* Thresholds in tenths: below 0, 0.5, SCORE_THRESHOLD (0.7), above 1.
Thresholds == {-1, 5, 7, 11}

BatchItems == { Rec(Num(2), EmptyDict), Rec(Num(7), EmptyDict), Rec(None, EmptyDict) }

\* The batch size of the script.
BATCH_SIZE == 10

\* A list of 23 records, each different from its neighbours, as the script
\* gives batch_evaluations with BATCH_SIZE.
LongList == [i \in 1..23 |-> Rec(Num(i % 10), [evaluator_name |-> Str("A")])]

BatchLists ==
    UNION { [1..n -> BatchItems] : n \in 0..MaxBatchLen } \cup {LongList}

BatchSizes == ((-2)..MaxBatchSize) \cup {BATCH_SIZE}

InitStats ==
    /\ pc = "stats"
    /\ evaluations \in RecordLists
    /\ threshold \in Thresholds
    /\ data = Idle
    /\ parent_metadata = EmptyDict
    /\ stats = Idle
    /\ batch_size = 0
    /\ batches = Idle
    /\ NoDashboard
    /\ NoScripts

\* A call compute_statistics(evaluations, threshold).
ComputeStatistics ==
    /\ pc = "stats"
    /\ stats' = compute_statistics(evaluations, threshold)
    /\ pc' = "stats_done"
    /\ UNCHANGED <<data, parent_metadata, evaluations, threshold, batch_size,
                   batches, dashboard, scripts>>

NextStats == ComputeStatistics

SpecStats == InitStats /\ [][NextStats]_vars

InitBatch ==
    /\ pc = "batch"
    /\ evaluations \in BatchLists
    /\ batch_size \in BatchSizes
    /\ data = Idle
    /\ parent_metadata = EmptyDict
    /\ threshold = 0
    /\ stats = Idle
    /\ batches = Idle
    /\ NoDashboard
    /\ NoScripts

\* A call batch_evaluations(evaluations, batch_size).
Batch ==
    /\ pc = "batch"
    /\ batches' = batch_evaluations(evaluations, batch_size)
    /\ pc' = "batched"
    /\ UNCHANGED <<data, parent_metadata, evaluations, threshold, stats,
                   batch_size, dashboard,
                   scripts>>

NextBatch == Batch

SpecBatch == InitBatch /\ [][NextBatch]_vars

(***************************************************************************)
(* The dashboard page: the script of the HTML template of                  *)
(* dashboard_generator.py.  EVALUATION_DATA is the array of the session    *)
(* bundles, as the sequence of its items.  In the page's data a string is  *)
(* Str of the sequence of its characters and a number is Num(n) with n in  *)
(* hundredths: the value 0.85 is Num(85) and 150 tokens are Num(15000).    *)
(***************************************************************************)
\* JavaScript's undefined: what reading a missing property gives.
Undefined == [k |-> "undefined", v |-> 0]

\* obj.key, and obj?.key for an obj that is null or undefined.
Prop(obj, key) ==
    IF obj.k = "dict" /\ HasKey(obj, key) THEN Get(obj, key) ELSE Undefined

\* The values `||` skips: null, undefined, 0, '' and false.
Falsy(val) ==
    \/ val.k \in {"null", "undefined"}
    \/ val.k = "num" /\ val.v = 0
    \/ val.k = "str" /\ val.v = <<>>
    \/ val.k = "bool" /\ ~val.v

\* a || b.
OrElse(a, b) == IF Falsy(a) THEN b ELSE a

\* a != null.
NotNullish(val) == val.k \notin {"null", "undefined"}

DigitChars == <<"0", "1", "2", "3", "4", "5", "6", "7", "8", "9">>

\* The decimal digits of a natural number.
RECURSIVE Decimal(_)
Decimal(n) ==
    IF n < 10 THEN <<DigitChars[n + 1]>>
    ELSE Decimal(n \div 10) \o <<DigitChars[(n % 10) + 1]>>

\* String(x) of a number of hundredths: no fraction for a whole number and
\* no trailing zero (1, 0.5, 0.85, -0.05).
NumberText(n) ==
    LET m == IF n < 0 THEN -n ELSE n
        tenths == (m % 100) \div 10
        hundredths == m % 10
    IN (IF n < 0 THEN <<"-">> ELSE <<>>)
       \o Decimal(m \div 100)
       \o (IF m % 100 = 0 THEN <<>> ELSE <<".", DigitChars[tenths + 1]>>)
       \o (IF hundredths = 0 THEN <<>> ELSE <<DigitChars[hundredths + 1]>>)

\* ${val} in a template literal, for the values the page's data holds.
Text(val) ==
    CASE val.k = "str" -> val.v
      [] val.k = "num" -> NumberText(val.v)
      [] val.k = "bool" -> IF val.v THEN <<"t", "r", "u", "e">>
                           ELSE <<"f", "a", "l", "s", "e">>
      [] val.k = "null" -> <<"n", "u", "l", "l">>
      [] OTHER -> <<"u", "n", "d", "e", "f", "i", "n", "e", "d">>

\* allResults of renderOverview: the results of the sessions that have
\* some, in order.
RECURSIVE allResults(_)
allResults(sessions) ==
    IF sessions = <<>> THEN <<>>
    ELSE (IF Falsy(Prop(Head(sessions), "results")) THEN <<>>
          ELSE Prop(Head(sessions), "results").v)
         \o allResults(Tail(sessions))

\* validScores of renderOverview.
validScores(results) ==
    SelectSeq(results, LAMBDA r : NotNullish(Prop(r, "value")))

\* (mutant) the bin index without Math.min(..., 9).
binIndex_unclamped(r) == (Prop(r, "value").v * 10) \div 100

\* Math.min(Math.floor(r.value * 10), 9).
binIndex(r) ==
    LET floor == (Prop(r, "value").v * 10) \div 100
    IN IF floor < 9 THEN floor ELSE 9

\* scores.forEach(...) on the array `bins`: an index of the array is
\* incremented; any other index becomes a property of the array that is
\* no bin (`other`).
RECURSIVE FillBins(_, _)
FillBins(chart, scores) ==
    IF scores = <<>> THEN chart
    ELSE LET i == binIndex(Head(scores))
         IN FillBins(IF i \in DOMAIN chart.bins
                     THEN [chart EXCEPT !.bins[i] = @ + 1]
                     ELSE [chart EXCEPT !.other = @ \cup {i}],
                     Tail(scores))

\* The data of the score chart: Array(10).fill(0), indexed from 0, after
\* the loop over the scores.
renderScoreChart(scores) ==
    FillBins([bins |-> [i \in 0..9 |-> 0], other |-> {}], scores)

renderOverview(sessions) ==
    [score |-> renderScoreChart(validScores(allResults(sessions)))]

\* The property name of evaluatorMap[r.evaluator_id]: the text of the
\* entry's evaluator_id, "undefined" when the entry has none.
EvaluatorKey(r) == Text(Prop(r, "evaluator_id"))

\* evaluatorMap of renderEvaluators after the entries of results: for each
\* name, the scores of its entries that have one, the sum of their
\* totalTokens and their number.  The table shows a row for each name.
RECURSIVE evaluatorMap(_, _)
evaluatorMap(map, results) ==
    IF results = <<>> THEN map
    ELSE LET r == Head(results)
             id == EvaluatorKey(r)
             old == IF id \in DOMAIN map THEN map[id]
                    ELSE [scores |-> <<>>, tokens |-> 0, count |-> 0]
             tokens ==
                 OrElse(Prop(Prop(r, "token_usage"), "totalTokens"), Num(0))
             new == [scores |-> IF NotNullish(Prop(r, "value"))
                                THEN Append(old.scores, Prop(r, "value"))
                                ELSE old.scores,
                     tokens |-> old.tokens + tokens.v,
                     count |-> old.count + 1]
         IN evaluatorMap([k \in DOMAIN map \cup {id} |->
                            IF k = id THEN new ELSE map[k]],
                         Tail(results))

renderEvaluators(sessions) == evaluatorMap(<<>>, allResults(sessions))

\* 'Session ID,Evaluator,Score,Label,Tokens\n'.
CsvHeader ==
    <<"S", "e", "s", "s", "i", "o", "n", " ", "I", "D", ",",
      "E", "v", "a", "l", "u", "a", "t", "o", "r", ",",
      "S", "c", "o", "r", "e", ",", "L", "a", "b", "e", "l", ",",
      "T", "o", "k", "e", "n", "s", "\n">>

\* The line exportToCSV adds for a result r of a session.
CsvRow(session, r) ==
    <<"\"">> \o Text(Prop(session, "session_id")) \o <<"\"", ",">>
    \o <<"\"">> \o Text(Prop(r, "evaluator_id")) \o <<"\"", ",">>
    \o Text(OrElse(Prop(r, "value"), Str(<<>>))) \o <<",">>
    \o <<"\"">> \o Text(OrElse(Prop(r, "label"), Str(<<>>))) \o <<"\"", ",">>
    \o Text(OrElse(Prop(Prop(r, "token_usage"), "totalTokens"), Num(0)))
    \o <<"\n">>

RECURSIVE CsvRows(_, _)
CsvRows(session, results) ==
    IF results = <<>> THEN <<>>
    ELSE CsvRow(session, Head(results)) \o CsvRows(session, Tail(results))

RECURSIVE CsvSessions(_)
CsvSessions(sessions) ==
    IF sessions = <<>> THEN <<>>
    ELSE CsvRows(Head(sessions),
                 OrElse(Prop(Head(sessions), "results"), Lst(<<>>)).v)
         \o CsvSessions(Tail(sessions))

\* The text exportToCSV hands to downloadFile.
exportToCSV(sessions) == CsvHeader \o CsvSessions(sessions)

(***************************************************************************)
(* Inputs of the dashboard page.                                           *)
(***************************************************************************)
\* Most results of a session, and most sessions of EVALUATION_DATA.
MaxResults == 2

MaxSessions == 2

Result(evaluator_id, value, label, token_usage) ==
    Dct(Field("evaluator_id", evaluator_id) \o Field("value", value)
          \o Field("label", label) \o Field("token_usage", token_usage))

Usage(totalTokens) == Dct(Field("totalTokens", totalTokens))

\* Results with a value inside [0, 1], at its ends, above and below it and
\* with none; with a plain label, a label holding a quote or a comma, an
\* empty one, null and none; with tokens, 0 tokens and no token count.
Results ==
    { Result(Str(<<"E", "1">>), Num(85), Str(<<"P">>), Usage(Num(15000))),
      Result(Str(<<"E", "1">>), Num(0), Str(<<"F">>), Usage(Num(15000))),
      Result(Str(<<"E", "2">>), Null, Absent, Absent),
      Result(Str(<<"E", "2">>), Num(100), Str(<<"a", "\"", "b">>), Usage(Num(0))),
      Result(Str(<<"E", "1">>), Num(120), Str(<<"x", ",", "y">>), Usage(Num(15000))),
      Result(Str(<<"E", "2">>), Num(5), Str(<<>>), Usage(Absent)),
      Result(Str(<<"E", "1">>), Num(-5), Str(<<"P">>), Usage(Num(15000))),
      Result(Str(<<"E", "2">>), Num(99), Null, Usage(Num(700))) }

Session(session_id, results) ==
    Dct(Field("session_id", session_id) \o Field("results", results))

ResultLists ==
    { Lst(rs) : rs \in UNION { [1..n -> Results] : n \in 0..MaxResults } }

\* The first session of the data: any results, or no `results` key.
FirstSessions ==
    { Session(Str(<<"s", "1">>), rs) : rs \in ResultLists \cup {Absent} }

\* The sessions after the first.
MoreSessions ==
    { Session(Str(<<"s", "2">>), rs) :
        rs \in { Absent,
                 Lst(<<Result(Str(<<"E", "1">>), Num(50), Str(<<"P">>),
                               Usage(Num(15000)))>>),
                 Lst(<<Result(Str(<<"E", "2">>), Null, Str(<<"F">>),
                               Absent)>>) } }

DashboardData ==
    {<<>>} \cup
    { <<first>> \o more :
        first \in FirstSessions,
        more \in UNION { [1..n -> MoreSessions] : n \in 0..(MaxSessions - 1) } }

InitDashboard ==
    /\ pc = "load"
    /\ EVALUATION_DATA \in DashboardData
    /\ evaluation_data = Idle
    /\ dashboard_file = ""
    /\ printed = <<>>
    /\ charts = Idle
    /\ evaluatorsTable = Idle
    /\ csv = <<>>
    /\ data = Idle
    /\ parent_metadata = EmptyDict
    /\ evaluations = <<>>
    /\ threshold = 0
    /\ stats = Idle
    /\ batch_size = 0
    /\ batches = Idle
    /\ NoScripts

\* The page loads: initializeDashboard() draws the overview and fills the
\* table of the evaluators.
InitializeDashboard ==
    /\ pc = "load"
    /\ charts' = renderOverview(EVALUATION_DATA)
    /\ evaluatorsTable' = renderEvaluators(EVALUATION_DATA)
    /\ pc' = "ready"
    /\ UNCHANGED <<data, parent_metadata, evaluations, threshold, stats,
                   batch_size, batches, evaluation_data, dashboard_file,
                   printed, EVALUATION_DATA, csv, scripts>>

\* A click on "Export CSV".
ExportToCSV ==
    /\ pc = "ready"
    /\ csv' = exportToCSV(EVALUATION_DATA)
    /\ UNCHANGED <<pc, data, parent_metadata, evaluations, threshold, stats,
                   batch_size, batches, evaluation_data, dashboard_file,
                   printed, EVALUATION_DATA, charts, evaluatorsTable,
                   scripts>>

NextDashboard == InitializeDashboard \/ ExportToCSV

SpecDashboard == InitDashboard /\ [][NextDashboard]_vars

(***************************************************************************)
(* generate_dashboard of dashboard_generator.py: it writes the page with   *)
(* the data embedded in its script and returns the path of the file.       *)
(***************************************************************************)
\* json.dumps(val, indent=2, default=str), as the page's script reads it:
\* lists become arrays, dicts objects, None null, the rest itself.
RECURSIVE json_dumps(_)
json_dumps(val) ==
    CASE val.k = "list" ->
           Lst([i \in 1..Len(val.v) |-> json_dumps(val.v[i])])
      [] val.k = "dict" ->
           Dct([i \in 1..Len(val.v) |->
                  <<val.v[i][1], json_dumps(val.v[i][2])>>])
      [] OTHER -> val

\* generate_dashboard(arg): what is not a list is wrapped in one; the file
\* is written, unless the directory or the file cannot be (writable is
\* FALSE), and its path is printed and returned.
generate_dashboard(arg, writable) ==
    LET evaluation_data_list == IF arg.k = "list" THEN arg ELSE Lst(<<arg>>)
    IN IF ~writable THEN Raise("OSError")
       ELSE Return([EVALUATION_DATA |-> json_dumps(evaluation_data_list).v,
                    dashboard_file |-> "evaluation_dashboard.html",
                    printed |-> <<"Dashboard generated",
                                  "Open in browser">>])

\* What a caller passes: a list of sessions, the empty list among them, or
\* one session.
GenerateInputs ==
    { Lst(sessions) : sessions \in DashboardData } \cup FirstSessions

InitGenerate ==
    /\ pc = "generate"
    /\ evaluation_data \in GenerateInputs
    /\ dashboard_file = ""
    /\ printed = <<>>
    /\ EVALUATION_DATA = <<>>
    /\ charts = Idle
    /\ evaluatorsTable = Idle
    /\ csv = <<>>
    /\ data = Idle
    /\ parent_metadata = EmptyDict
    /\ evaluations = <<>>
    /\ threshold = 0
    /\ stats = Idle
    /\ batch_size = 0
    /\ batches = Idle
    /\ NoScripts

\* A call of generate_dashboard(evaluation_data); the file is then opened
\* in a browser.
GenerateDashboard ==
    /\ pc = "generate"
    /\ \E writable \in BOOLEAN :
          LET call == generate_dashboard(evaluation_data, writable)
          IN IF call.raised # ""
             THEN /\ pc' = "raised"
                  /\ UNCHANGED <<EVALUATION_DATA, dashboard_file, printed>>
             ELSE /\ pc' = "load"
                  /\ EVALUATION_DATA' = call.value.EVALUATION_DATA
                  /\ dashboard_file' = call.value.dashboard_file
                  /\ printed' = call.value.printed
    /\ UNCHANGED <<data, parent_metadata, evaluations, threshold, stats,
                   batch_size, batches, evaluation_data, charts,
                   evaluatorsTable, csv, scripts>>

NextGenerate == GenerateDashboard \/ InitializeDashboard \/ ExportToCSV

SpecGenerate == InitGenerate /\ [][NextGenerate]_vars

(***************************************************************************)
(* The script eval-auto.py.  `auto` holds what the script finds on disk    *)
(* (the state of the system prompt file and the JSON files of the          *)
(* evaluation folder, in sorted order) and what the run has done: the      *)
(* low-scoring records, whether the orchestrator was called and with       *)
(* which batches, whether the report was written, and how the run ended;   *)
(* evaluations, stats and batches are the script's variables of these      *)
(* names.                                                                  *)
(***************************************************************************)
\* The threshold of the script, in tenths.
SCORE_THRESHOLD == 7

\* Most JSON files in the evaluation folder.
MaxFiles == 2

\* A file json.load() cannot read.
Invalid == [k |-> "invalid", v |-> 0]

\* The folder does not exist.
Missing == [k |-> "missing", v |-> 0]

ScoreRecord(sc) == Dct(<< <<"score", sc>>, <<"explanation", Str("x")>> >>)

\* Files without a record, with a score below, at and above the
\* threshold, without a score, with a string for a score, with twelve low
\* scores, and one that is no JSON.
FileContents ==
    { Invalid,
      Dct(<< <<"note", Str("n")>> >>),
      Lst(<<ScoreRecord(Num(3))>>),
      Lst(<<ScoreRecord(Num(7))>>),
      Dct(<< <<"session_id", Str("s")>>,
             <<"results", Lst(<<ScoreRecord(Null), ScoreRecord(Num(9))>>)>> >>),
      Lst(<<ScoreRecord(Str("hi"))>>),
      Lst([i \in 1..12 |-> ScoreRecord(Num(i % 7))]) }

Folders ==
    {Missing} \cup
    { Lst(files) : files \in UNION { [1..n -> FileContents] : n \in 0..MaxFiles } }

\* The system prompt file: missing, shorter than 100 characters, nothing
\* but a comment header, or a prompt.
Prompts == {"missing", "short", "blank", "ok"}

\* load_evaluations over the first n files of the folder: a file that
\* cannot be read is reported and skipped.
RECURSIVE load_evaluations(_, _)
load_evaluations(files, n) ==
    IF n = 0 THEN <<>>
    ELSE load_evaluations(files, n - 1)
         \o (IF files[n] = Invalid THEN <<>>
             ELSE extract_evaluations(
                      files[n],
                      [source_file |-> Str(ToString(n) \o ".json")]))

\* (mutant) the check of the loaded list never fires.
NoEvaluations_unchecked(evals) == FALSE

\* len(evaluations) == 0.
NoEvaluations(evals) == Len(evals) = 0

\* (mutant) a score equal to the threshold is selected too.
SelectLowScoring_inclusive(evals) ==
    SelectSeq(evals, LAMBDA e : e.score # None
                                   /\ NumVal(e.score) <= SCORE_THRESHOLD)

\* low_scoring of the script: [e for e in evaluations if e['score'] is not
\* None and e['score'] < SCORE_THRESHOLD].
SelectLowScoring(evals) ==
    SelectSeq(evals, LAMBDA e : e.score # None
                                   /\ NumVal(e.score) < SCORE_THRESHOLD)

\* (mutant) the script goes on without a low score.
NothingToAnalyze_unchecked(low) == FALSE

\* len(low_scoring) == 0.
NothingToAnalyze(low) == Len(low) = 0

\* sys.exit(status) after a message, or the end of an uncaught exception
\* (status 1).  exit_status is "" while the script runs, then "0" or "1".
Exit(status, message) ==
    /\ pc' = "exit"
    /\ auto' = [auto EXCEPT !.exit_status = status, !.error = message]

InitAuto ==
    /\ pc = "check_prompt"
    /\ \E p \in Prompts, f \in Folders :
          auto = [prompt |-> p, folder |-> f, low_scoring |-> <<>>,
                  called |-> FALSE, orchestrated |-> <<>>,
                  report |-> FALSE, exit_status |-> "", error |-> ""]
    /\ evaluations = <<>>
    /\ stats = Idle
    /\ batches = Idle
    /\ data = Idle
    /\ parent_metadata = EmptyDict
    /\ threshold = 0
    /\ batch_size = 0
    /\ NoDashboard
    /\ ondemand = Idle
    /\ bysession = Idle
    /\ pipeline = Idle

\* What no step of the script touches.
autoFrame ==
    <<data, parent_metadata, threshold, batch_size, dashboard, ondemand,
      bysession, pipeline>>

\* The system prompt file is read and validated.
CheckPrompt ==
    /\ pc = "check_prompt"
    /\ IF auto.prompt = "missing"
       THEN Exit("1", "ERROR: system-prompt.txt not found!")
       ELSE IF auto.prompt = "short"
       THEN Exit("1", "WARNING: system-prompt.txt seems too short")
       ELSE IF auto.prompt = "blank"
       THEN Exit("1", "ERROR: System prompt is empty!")
       ELSE pc' = "check_folder" /\ UNCHANGED auto
    /\ UNCHANGED <<evaluations, stats, batches, autoFrame>>

\* The evaluation folder and its JSON files are looked for.
CheckFolder ==
    /\ pc = "check_folder"
    /\ IF auto.folder = Missing
       THEN Exit("1", "ERROR: Evaluation folder not found")
       ELSE IF auto.folder.v = <<>>
       THEN Exit("1", "ERROR: No JSON files found")
       ELSE pc' = "load" /\ UNCHANGED auto
    /\ UNCHANGED <<evaluations, stats, batches, autoFrame>>

\* evaluations = load_evaluations(EVAL_FOLDER), and the check of the list.
LoadEvaluations ==
    /\ pc = "load"
    /\ evaluations' = load_evaluations(auto.folder.v, Len(auto.folder.v))
    /\ IF NoEvaluations(evaluations')
       THEN Exit("1", "ERROR: No evaluations found in JSON files!")
       ELSE pc' = "statistics" /\ UNCHANGED auto
    /\ UNCHANGED <<stats, batches, autoFrame>>

\* stats = compute_statistics(evaluations, SCORE_THRESHOLD), and the lines
\* that print stats['mean_score'] and the other fields.
ComputeStats ==
    /\ pc = "statistics"
    /\ stats' = compute_statistics(evaluations, SCORE_THRESHOLD)
    /\ IF stats'.raised # ""
       THEN Exit("1", stats'.raised)
       ELSE IF "mean_score" \notin DOMAIN stats'.value
       THEN Exit("1", "KeyError")
       ELSE pc' = "select" /\ UNCHANGED auto
    /\ UNCHANGED <<evaluations, batches, autoFrame>>

\* The low-scoring records are selected; without any the script ends.
Select ==
    /\ pc = "select"
    /\ LET low == SelectLowScoring(evaluations)
       IN IF NothingToAnalyze(low)
          THEN /\ pc' = "exit"
               /\ auto' = [auto EXCEPT !.low_scoring = low,
                                       !.exit_status = "0"]
          ELSE /\ pc' = "analyze"
               /\ auto' = [auto EXCEPT !.low_scoring = low]
    /\ UNCHANGED <<evaluations, stats, batches, autoFrame>>

\* The batches are written into the prompt and the orchestrator is called;
\* the call returns or raises.
Analyze ==
    /\ pc = "analyze"
    /\ batches' = batch_evaluations(auto.low_scoring, BATCH_SIZE)
    /\ \E returns \in BOOLEAN :
          IF returns
          THEN /\ pc' = "save"
               /\ auto' = [auto EXCEPT !.called = TRUE,
                                       !.orchestrated = batches'.value]
          ELSE /\ pc' = "exit"
               /\ auto' = [auto EXCEPT !.called = TRUE,
                                       !.orchestrated = batches'.value,
                                       !.exit_status = "1",
                                       !.error = "Exception"]
    /\ UNCHANGED <<evaluations, stats, autoFrame>>

\* The report is shown and written, and the script ends.
SaveReport ==
    /\ pc = "save"
    /\ pc' = "exit"
    /\ auto' = [auto EXCEPT !.report = TRUE, !.exit_status = "0"]
    /\ UNCHANGED <<evaluations, stats, batches, autoFrame>>

NextAuto ==
    \/ CheckPrompt
    \/ CheckFolder
    \/ LoadEvaluations
    \/ ComputeStats
    \/ Select
    \/ Analyze
    \/ SaveReport

SpecAuto == InitAuto /\ [][NextAuto]_vars

(***************************************************************************)
(* The retry loop of on-demand.py.  `ondemand` holds the loop's variables: *)
(* the attempt, the next of the three eval_client.run calls of the         *)
(* attempt, the three result variables (a result is marked with the        *)
(* attempt that got it), what the last call did, the messages printed,     *)
(* the exception that ended the script (Returned for none), whether the    *)
(* results were displayed, and USE_IPYTHON, which tells how.               *)
(***************************************************************************)
max_retries_ondemand == 3

\* What eval_client.run does: it returns, or raises an exception of a
\* class and with a message that holds "No spans found" or does not.
Returned == [class |-> "", no_spans |-> FALSE]

RunOutcomes ==
    {Returned} \cup
    [class : {"RuntimeError", "Exception"}, no_spans : BOOLEAN]

\* `except RuntimeError as e: if "No spans found" in str(e)`.
NoSpansFound(e) == e.class = "RuntimeError" /\ e.no_spans

\* (mutant) a failed last attempt is waited for as well.
MayRetry_always(attempt_no) == TRUE

\* attempt < max_retries.
MayRetry(attempt_no) == attempt_no < max_retries_ondemand

\* The evaluators of the three calls of an attempt.
OnDemandCalls ==
    << <<"Builtin.GoalSuccessRate">>,
       <<"Builtin.Correctness">>,
       <<"Builtin.ToolParameterAccuracy", "Builtin.ToolSelectionAccuracy">> >>

InitOnDemand ==
    /\ pc = "evaluate"
    /\ \E ipython \in BOOLEAN :
          ondemand = [USE_IPYTHON |-> ipython, attempt |-> 1, call |-> 1,
                      goal_sucess_results |-> None,
                      correctness_results |-> None,
                      parameter_results |-> None,
                      last |-> Returned, log |-> <<"attempt">>,
                      raised |-> Returned, displayed |-> FALSE]
    /\ evaluations = <<>>
    /\ stats = Idle
    /\ batches = Idle
    /\ data = Idle
    /\ parent_metadata = EmptyDict
    /\ threshold = 0
    /\ batch_size = 0
    /\ NoDashboard
    /\ auto = Idle
    /\ bysession = Idle
    /\ pipeline = Idle

\* What no step of on-demand.py touches.
ondemandFrame ==
    <<data, parent_metadata, evaluations, threshold, stats, batch_size,
      batches, dashboard, auto, bysession, pipeline>>

\* The result variable of the n-th call of an attempt.
StoreResult(n, result) ==
    IF n = 1 THEN [ondemand EXCEPT !.goal_sucess_results = result,
                                   !.last = Returned]
    ELSE IF n = 2 THEN [ondemand EXCEPT !.correctness_results = result,
                                        !.last = Returned]
    ELSE [ondemand EXCEPT !.parameter_results = result, !.last = Returned]

\* The next eval_client.run call of the attempt, and what follows it: the
\* next call, the end of the loop, the wait before the next attempt, or
\* the exception that leaves the script.
RunEvaluation ==
    /\ pc = "evaluate"
    /\ \E outcome \in RunOutcomes :
          LET n == ondemand.call
              result == [evaluators |-> OnDemandCalls[n],
                         attempt |-> ondemand.attempt]
          IN IF outcome = Returned
             THEN IF n < Len(OnDemandCalls)
                  THEN /\ ondemand' = [StoreResult(n, result) EXCEPT !.call = n + 1]
                       /\ pc' = "evaluate"
                  ELSE /\ ondemand' = [StoreResult(n, result) EXCEPT
                                          !.log = Append(@, "successful")]
                       /\ pc' = "display"
             ELSE IF NoSpansFound(outcome) /\ MayRetry(ondemand.attempt)
             THEN \* time.sleep(retry_delay), then the next value of
                  \* range(1, max_retries + 1) or the end of the loop.
                  IF ondemand.attempt + 1 \in 1..max_retries_ondemand
                  THEN /\ ondemand' = [ondemand EXCEPT
                                         !.last = outcome,
                                         !.log = @ \o <<"waiting", "attempt">>,
                                         !.attempt = @ + 1, !.call = 1]
                       /\ pc' = "evaluate"
                  ELSE /\ ondemand' = [ondemand EXCEPT
                                         !.last = outcome,
                                         !.log = Append(@, "waiting")]
                       /\ pc' = "display"
             ELSE /\ ondemand' =
                       [ondemand EXCEPT
                          !.last = outcome,
                          !.raised = outcome,
                          !.log = IF NoSpansFound(outcome)
                                  THEN Append(@, "still no spans") ELSE @]
                  /\ pc' = "raised"
    /\ UNCHANGED ondemandFrame

\* The results that were got are displayed.
DisplayResults ==
    /\ pc = "display"
    /\ ondemand' = [ondemand EXCEPT
                       !.displayed = TRUE,
                       !.log = Append(@, IF ondemand.USE_IPYTHON
                                         THEN "display" ELSE "print")]
    /\ pc' = "done"
    /\ UNCHANGED ondemandFrame

NextOnDemand == RunEvaluation \/ DisplayResults

SpecOnDemand == InitOnDemand /\ [][NextOnDemand]_vars

(***************************************************************************)
(* The retry loop of eval-by-sessionid.py.  `bysession` holds the loop's   *)
(* variables: the attempt, the group and the evaluator to run next,        *)
(* all_results (a result is marked with the attempt that got it), what     *)
(* the last call did, the messages printed and the exception that ended    *)
(* the script (Returned for none).                                         *)
(***************************************************************************)
max_retries_bysession == 3

FLEXIBLE_EVALUATORS ==
    <<"Builtin.Correctness", "Builtin.Faithfulness", "Builtin.Helpfulness",
      "Builtin.ResponseRelevance", "Builtin.Conciseness", "Builtin.Coherence",
      "Builtin.InstructionFollowing", "Builtin.Refusal", "Builtin.Harmfulness",
      "Builtin.Stereotyping">>

SESSION_ONLY_EVALUATORS == <<"Builtin.GoalSuccessRate">>

SPAN_ONLY_EVALUATORS ==
    <<"Builtin.ToolSelectionAccuracy", "Builtin.ToolParameterAccuracy">>

\* The evaluators of the groups of test_groups.
test_groups ==
    <<FLEXIBLE_EVALUATORS, SESSION_ONLY_EVALUATORS, SPAN_ONLY_EVALUATORS>>

\* `except Exception`: the classes it catches.
IsException(e) == e.class \in {"RuntimeError", "Exception"}

InitBySession ==
    /\ pc = "evaluate"
    /\ bysession = [attempt |-> 1, group |-> 1, evaluator |-> 1,
                    all_results |-> <<>>, last |-> Returned,
                    log |-> <<"attempt">>, raised |-> Returned]
    /\ evaluations = <<>>
    /\ stats = Idle
    /\ batches = Idle
    /\ data = Idle
    /\ parent_metadata = EmptyDict
    /\ threshold = 0
    /\ batch_size = 0
    /\ NoDashboard
    /\ auto = Idle
    /\ ondemand = Idle
    /\ pipeline = Idle

\* What no step of eval-by-sessionid.py touches.
bysessionFrame ==
    <<data, parent_metadata, evaluations, threshold, stats, batch_size,
      batches, dashboard, auto, ondemand, pipeline>>

\* The loop over the groups goes on with group g, or ends: "All
\* evaluations successful!" and `break`.
NextGroup(state, g) ==
    IF g <= Len(test_groups)
    THEN /\ bysession' = [state EXCEPT !.group = g, !.evaluator = 1]
         /\ pc' = "evaluate"
    ELSE /\ bysession' = [state EXCEPT !.log = Append(@, "successful")]
         /\ pc' = "summary"

\* The next eval_client.run call.  What it raises is caught by the
\* `except Exception` around the evaluators of the group, which prints the
\* error and goes on with the next group; only what that handler does not
\* catch reaches the `except RuntimeError` of the attempt.
RunEvaluator ==
    /\ pc = "evaluate"
    /\ \E outcome \in RunOutcomes :
          LET g == bysession.group
              n == bysession.evaluator
              result == [evaluator_name |-> test_groups[g][n],
                         attempt |-> bysession.attempt]
              got == [bysession EXCEPT !.last = outcome]
          IN IF outcome = Returned
             THEN IF n < Len(test_groups[g])
                  THEN /\ bysession' =
                            [got EXCEPT !.all_results = Append(@, result),
                                        !.evaluator = n + 1]
                       /\ pc' = "evaluate"
                  ELSE NextGroup([got EXCEPT
                                    !.all_results = Append(@, result),
                                    !.log = Append(@, "completed group")],
                                 g + 1)
             ELSE IF IsException(outcome)
             THEN NextGroup([got EXCEPT !.log = Append(@, "error in group")],
                            g + 1)
             ELSE IF NoSpansFound(outcome)
                       /\ bysession.attempt < max_retries_bysession
             THEN /\ bysession' =
                       [got EXCEPT !.log = @ \o <<"waiting", "attempt">>,
                                   !.attempt = @ + 1,
                                   !.group = 1, !.evaluator = 1]
                  /\ pc' = "evaluate"
             ELSE /\ bysession' =
                       [got EXCEPT
                          !.raised = outcome,
                          !.log = IF NoSpansFound(outcome)
                                  THEN Append(@, "still no spans") ELSE @]
                  /\ pc' = "raised"
    /\ UNCHANGED bysessionFrame

\* The summary of all_results is printed.
DisplaySummary ==
    /\ pc = "summary"
    /\ bysession' = [bysession EXCEPT !.log = Append(@, "summary")]
    /\ pc' = "done"
    /\ UNCHANGED bysessionFrame

NextBySession == RunEvaluator \/ DisplaySummary

SpecBySession == InitBySession /\ [][NextBySession]_vars

(***************************************************************************)
(* The script eval-by-pipeline.py.  `pipeline` holds the script's          *)
(* variables: invocation_results, the session that is evaluated (i), the   *)
(* attempt and the evaluator to run next, eval_results, batch_results,     *)
(* what the last eval_client.run call did and what the summary and the     *)
(* dashboard step print.  eval_runs names, for each entry of eval_results, *)
(* the attempt whose run gave it, and batch_runs keeps it for each entry   *)
(* of batch_results.  Texts are sequences of characters and numbers are    *)
(* in hundredths, as in the dashboard's data.                              *)
(***************************************************************************)
max_retries_pipeline == 2

\* The prompts of EXPERIMENT_PROMPTS that are run.
MaxPrompts == 2

Metadata(category, turn) ==
    Dct(Field("category", Str(category)) \o Field("turn", Num(turn)))

Prompt(prompt, session_id, metadata) ==
    Dct(Field("prompt", Str(prompt)) \o Field("session_id", Str(session_id))
        \o Field("metadata", metadata))

\* The prompts, with the first words of their texts; the fourth and the
\* fifth share planned_session.
EXPERIMENT_PROMPTS ==
    <<Prompt(<<"W", "h", "a", "t">>, <<>>,
             Metadata(<<"m", "a", "t", "h">>, 100)),
      Prompt(<<"W", "h", "a", "t", " ", "i", "s", " ", "t", "h", "e">>,
             <<>>,
             Metadata(<<"g", "e", "o", "g", "r", "a", "p", "h", "y">>, 100)),
      Prompt(<<"T", "e", "l", "l">>, <<>>,
             Metadata(<<"s", "c", "i", "e", "n", "c", "e">>, 100)),
      Prompt(<<"H", "e", "l", "l", "o">>,
             <<"p", "l", "a", "n", "n", "e", "d">>,
             Metadata(<<"m", "a", "t", "h">>, 100)),
      Prompt(<<"W", "h", "a", "t", " ", "i", "s", " ", "1", "5">>,
             <<"p", "l", "a", "n", "n", "e", "d">>,
             Metadata(<<"m", "a", "t", "h">>, 200))>>

EXPERIMENT_EVALUATORS ==
    <<<<"B", "u", "i", "l", "t", "i", "n", ".", "H", "e", "l", "p", "f", "u", "l", "n", "e", "s", "s">>,
      <<"B", "u", "i", "l", "t", "i", "n", ".", "C", "o", "r", "r", "e", "c", "t", "n", "e", "s", "s">>,
      <<"B", "u", "i", "l", "t", "i", "n", ".", "G", "o", "a", "l", "S", "u", "c", "c", "e", "s", "s", "R", "a", "t", "e">>>>

\* The prompts of a run.
RunPrompts ==
    SubSeq(EXPERIMENT_PROMPTS, 1,
           IF MaxPrompts < Len(EXPERIMENT_PROMPTS) THEN MaxPrompts
           ELSE Len(EXPERIMENT_PROMPTS))

\* str(uuid.uuid4()) for the i-th prompt.
uuid4(i) == <<"u", DigitChars[i + 1]>>

\* What a returning eval_client.run gives for an evaluator: one result.
EvaluationResult(evaluator) ==
    [evaluator_name |-> Str(evaluator), value |-> Num(85),
     label |-> Str(<<"P">>), explanation |-> Str(<<"o", "k">>)]

InitPipeline ==
    /\ pc = "invoke"
    /\ pipeline = [invocation_results |-> <<>>, i |-> 1, attempt |-> 1,
                   evaluator |-> 1, eval_results |-> <<>>,
                   eval_runs |-> <<>>, batch_results |-> <<>>,
                   batch_runs |-> <<>>, last |-> Returned, log |-> <<>>]
    /\ evaluations = <<>>
    /\ stats = Idle
    /\ batches = Idle
    /\ data = Idle
    /\ parent_metadata = EmptyDict
    /\ threshold = 0
    /\ batch_size = 0
    /\ NoDashboard
    /\ auto = Idle
    /\ ondemand = Idle
    /\ bysession = Idle

\* What no step of the script before its dashboard step touches.
pipelineFrame ==
    <<data, parent_metadata, evaluations, threshold, stats, batch_size,
      batches, auto, ondemand, bysession>>

\* The loop over invocation_results goes on with the i-th: a failed
\* invocation is added to batch_results and skipped; the evaluation of
\* another starts with an empty eval_results.
RECURSIVE NextSession(_, _)
NextSession(state, i) ==
    IF i > Len(state.invocation_results) THEN [state EXCEPT !.i = i]
    ELSE IF HasKey(state.invocation_results[i], "error")
    THEN NextSession(
           [state EXCEPT
              !.batch_results =
                  Append(state.batch_results, state.invocation_results[i]),
              !.batch_runs = Append(state.batch_runs, <<>>)],
           i + 1)
    ELSE [state EXCEPT !.i = i, !.attempt = 1, !.evaluator = 1,
                       !.eval_results = <<>>, !.eval_runs = <<>>]

\* Where the script is after NextSession.
AfterSession(state) ==
    IF state.i > Len(state.invocation_results) THEN "summary" ELSE "evaluate"

\* The agent is invoked with the next prompt; the invocation returns a
\* response or raises.
InvokeAgent ==
    /\ pc = "invoke"
    /\ \E ok \in BOOLEAN :
          LET i == Len(pipeline.invocation_results) + 1
              config == RunPrompts[i]
              session_id == IF Get(config, "session_id") = Str(<<>>)
                            THEN Str(uuid4(i))
                            ELSE Get(config, "session_id")
              result ==
                  Dct(Field("session_id", session_id)
                      \o Field("prompt", Get(config, "prompt"))
                      \o (IF ok THEN Field("response", Str(<<"r">>))
                          ELSE Field("error", Str(<<"e">>)))
                      \o Field("metadata", Get(config, "metadata")))
              invoked ==
                  [pipeline EXCEPT
                     !.invocation_results =
                         Append(pipeline.invocation_results, result)]
          IN IF i < Len(RunPrompts)
             THEN /\ pipeline' = invoked
                  /\ pc' = "invoke"
             ELSE /\ pipeline' = NextSession(invoked, 1)
                  /\ pc' = AfterSession(NextSession(invoked, 1))
    /\ UNCHANGED <<pipelineFrame, dashboard>>

\* The retry loop of a session has ended: its batch result is added.
FinishSession(state) ==
    LET inv_result == state.invocation_results[state.i]
        result ==
            Dct(Field("session_id", Get(inv_result, "session_id"))
                \o Field("prompt", Get(inv_result, "prompt"))
                \o Field("response", Get(inv_result, "response"))
                \o Field("metadata", Get(inv_result, "metadata"))
                \o Field("evaluations", Lst(state.eval_results)))
    IN NextSession(
         [state EXCEPT
            !.batch_results = Append(state.batch_results, result),
            !.batch_runs = Append(state.batch_runs, state.eval_runs)],
         state.i + 1)

\* The next eval_client.run call of the session: its result is added to
\* eval_results; after "No spans found" in an attempt before the last, the
\* next attempt starts with the first evaluator; any other exception ends
\* the retry loop.
RunPipelineEvaluator ==
    /\ pc = "evaluate"
    /\ \E outcome \in RunOutcomes :
          LET n == pipeline.evaluator
              r == EvaluationResult(EXPERIMENT_EVALUATORS[n])
              entry == Dct(Field("evaluator", r.evaluator_name)
                           \o Field("value", r.value)
                           \o Field("label", r.label)
                           \o Field("explanation", r.explanation))
              got == [pipeline EXCEPT !.last = outcome]
              added ==
                  [got EXCEPT
                     !.eval_results = Append(pipeline.eval_results, entry),
                     !.eval_runs =
                         Append(pipeline.eval_runs, pipeline.attempt)]
          IN IF outcome = Returned
             THEN IF n < Len(EXPERIMENT_EVALUATORS)
                  THEN /\ pipeline' = [added EXCEPT !.evaluator = n + 1]
                       /\ pc' = "evaluate"
                  ELSE /\ pipeline' = FinishSession(added)
                       /\ pc' = AfterSession(FinishSession(added))
             ELSE IF NoSpansFound(outcome)
                       /\ pipeline.attempt < max_retries_pipeline
             THEN /\ pipeline' =
                       [got EXCEPT !.attempt = pipeline.attempt + 1,
                                   !.evaluator = 1]
                  /\ pc' = "evaluate"
             ELSE /\ pipeline' = FinishSession(got)
                  /\ pc' = AfterSession(FinishSession(got))
    /\ UNCHANGED <<pipelineFrame, dashboard>>

\* The status the summary prints for a batch result.
Status(result) ==
    IF HasKey(result, "error") THEN "Error"
    ELSE IF HasKey(result, "evaluations")
            /\ Get(result, "evaluations").v # <<>>
    THEN "Success"
    ELSE "No evaluation results"

\* The summary of batch_results is printed.
PipelineSummary ==
    /\ pc = "summary"
    /\ pipeline' =
          [pipeline EXCEPT
             !.log = pipeline.log
                     \o [j \in 1..Len(pipeline.batch_results) |->
                           Status(pipeline.batch_results[j])]
                     \o <<"Pipeline evaluation complete!">>]
    /\ pc' = "dashboard"
    /\ UNCHANGED <<pipelineFrame, dashboard>>

\* dashboard_data: a bundle for each batch result with evaluations.
RECURSIVE dashboard_data(_)
dashboard_data(results) ==
    IF results = <<>> THEN <<>>
    ELSE LET result == Head(results)
         IN (IF HasKey(result, "evaluations")
                /\ Get(result, "evaluations").v # <<>>
             THEN <<Dct(Field("session_id", Get(result, "session_id"))
                        \o Field("metadata",
                                 IF HasKey(result, "metadata")
                                 THEN Get(result, "metadata")
                                 ELSE Dct(<<>>))
                        \o Field("results", Get(result, "evaluations")))>>
             ELSE <<>>)
            \o dashboard_data(Tail(results))

\* The dashboard step: dashboard_generator is imported, if it is there,
\* and generate_dashboard is called when dashboard_data is not empty; what
\* the import or the call raises is printed.
PipelineDashboard ==
    /\ pc = "dashboard"
    /\ \E importable \in BOOLEAN, writable \in BOOLEAN :
          LET bundles == Lst(dashboard_data(pipeline.batch_results))
              call == generate_dashboard(bundles, writable)
              Log(message) ==
                  pipeline' =
                      [pipeline EXCEPT !.log = Append(pipeline.log, message)]
          IN IF ~importable
             THEN /\ Log("dashboard_generator.py not found")
                  /\ pc' = "done"
                  /\ UNCHANGED dashboard
             ELSE IF bundles.v = <<>>
             THEN /\ UNCHANGED <<pipeline, dashboard>>
                  /\ pc' = "done"
             ELSE IF call.raised # ""
             THEN /\ Log("Error generating dashboard")
                  /\ pc' = "done"
                  /\ evaluation_data' = bundles
                  /\ UNCHANGED <<dashboard_file, printed, EVALUATION_DATA,
                                 charts, evaluatorsTable, csv>>
             ELSE /\ Log("Dashboard available")
                  /\ pc' = "load"
                  /\ evaluation_data' = bundles
                  /\ EVALUATION_DATA' = call.value.EVALUATION_DATA
                  /\ dashboard_file' = call.value.dashboard_file
                  /\ printed' = call.value.printed
                  /\ UNCHANGED <<charts, evaluatorsTable, csv>>
    /\ UNCHANGED pipelineFrame

NextPipeline ==
    \/ InvokeAgent
    \/ RunPipelineEvaluator
    \/ PipelineSummary
    \/ PipelineDashboard
    \/ InitializeDashboard
    \/ ExportToCSV

SpecPipeline == InitPipeline /\ [][NextPipeline]_vars

(***************************************************************************)
(* Vocabulary of the extraction properties: the positions of a document,   *)
(* stated on the tree itself and not on the traversal.                     *)
(***************************************************************************)
\* The children of a node: a list's items, a mapping's field values.
Children(d) ==
    IF d.k = "list" THEN d.v
    ELSE IF d.k = "dict" THEN [i \in 1..Len(d.v) |-> d.v[i][2]]
    ELSE <<>>

\* Every position of the tree, as the sequence of child indexes leading to it.
RECURSIVE Positions(_)
Positions(d) ==
    {<<>>} \cup
    UNION { { <<i>> \o p : p \in Positions(Children(d)[i]) } :
            i \in 1..Len(Children(d)) }

RECURSIVE NodeAt(_, _)
NodeAt(d, p) == IF p = <<>> THEN d ELSE NodeAt(Children(d)[p[1]], Tail(p))

Prefix(p, n) == SubSeq(p, 1, n)

\* A mapping with an `explanation` key and a `score` or `value` key.
RecordShaped(n) ==
    /\ n.k = "dict"
    /\ \E i \in 1..Len(n.v) : n.v[i][1] = "explanation"
    /\ \E i \in 1..Len(n.v) : n.v[i][1] \in {"score", "value"}

\* The record-shaped mappings not nested inside another such mapping.
TopRecordPaths(d) ==
    { p \in Positions(d) :
        /\ RecordShaped(NodeAt(d, p))
        /\ \A n \in 0..(Len(p) - 1) : ~RecordShaped(NodeAt(d, Prefix(p, n))) }

\* The key of the field a step of a path goes through, "" for a list item.
StepKey(d, p, n) ==
    LET node == NodeAt(d, Prefix(p, n - 1))
    IN IF node.k = "dict" THEN node.v[p[n]][1] ELSE ""

\* The position is reached through list items and container-named fields only.
ViaContainers(d, p) ==
    \A n \in 1..Len(p) :
        StepKey(d, p, n) \in {"", "results", "evaluations", "data", "items"}

ReachableRecordPaths(d) == { p \in TopRecordPaths(d) : ViaContainers(d, p) }

\* Document pre-order of two positions neither of which is above the other.
DocBefore(p, q) ==
    \E i \in 1..Len(p) :
        /\ i <= Len(q)
        /\ p[i] < q[i]
        /\ \A j \in 1..(i - 1) : p[j] = q[j]

\* The place of a step among its siblings in the traversal: a list item's
\* index, a container field's place in results, evaluations, data, items.
VisitRank(d, p, n) ==
    LET key == StepKey(d, p, n)
    IN CASE key = "" -> p[n]
         [] key = "results" -> 1
         [] key = "evaluations" -> 2
         [] key = "data" -> 3
         [] key = "items" -> 4
         [] OTHER -> 0

VisitBefore(d, p, q) ==
    \E i \in 1..Len(p) :
        /\ i <= Len(q)
        /\ VisitRank(d, p, i) < VisitRank(d, q, i)
        /\ \A j \in 1..(i - 1) : p[j] = q[j]

\* The score and explanation a record-shaped mapping is emitted with.
Emitted(n) ==
    LET at(key) == n.v[CHOOSE i \in 1..Len(n.v) : n.v[i][1] = key][2]
        has(key) == \E i \in 1..Len(n.v) : n.v[i][1] = key
    IN [score |-> IF has("score") THEN at("score") ELSE at("value"),
        explanation |-> at("explanation")]

Core(e) == [score |-> e.score, explanation |-> e.explanation]

(***************************************************************************)
(* C1                                                                      *)
(***************************************************************************)
\* C1 as stated: the extraction returns one record per record-shaped mapping
\* of the tree that is not nested in another one, in document pre-order.
C1_AsStated ==
    pc = "extracted" =>
        LET paths == TopRecordPaths(data)
        IN /\ Len(evaluations) = Cardinality(paths)
           /\ \A p \in paths :
                LET i == 1 + Cardinality({ q \in paths : DocBefore(q, p) })
                IN Core(evaluations[i]) = Emitted(NodeAt(data, p))

\* C1 (amended): the extraction returns one record per record-shaped mapping
\* that is reached from the root through list items and through the fields
\* results, evaluations, data, items of mappings that are not records; the
\* records come in traversal order: list items in list order, the container
\* fields of a mapping in the fixed order results, evaluations, data, items.
C1_ReachableInVisitOrder ==
    pc = "extracted" =>
        LET paths == ReachableRecordPaths(data)
        IN /\ Len(evaluations) = Cardinality(paths)
           /\ \A p \in paths :
                LET i == 1 + Cardinality({ q \in paths : VisitBefore(data, q, p) })
                IN Core(evaluations[i]) = Emitted(NodeAt(data, p))

\* Two records under container fields written in another order than the
\* code visits them, both extracted.
C1_Witness ==
    /\ pc = "extracted"
    /\ data.k = "dict"
    /\ Len(data.v) = 2
    /\ data.v[1][1] = "items"
    /\ data.v[2][1] = "results"
    /\ Len(evaluations) = 2
    /\ evaluations[1].explanation # evaluations[2].explanation

(***************************************************************************)
(* C2                                                                      *)
(***************************************************************************)
ContextKeySet == {"session_id", "trace_id", "evaluator_name", "evaluator_id"}

DictHas(n, key) == n.k = "dict" /\ \E i \in 1..Len(n.v) : n.v[i][1] = key

DictAt(n, key) == n.v[CHOOSE i \in 1..Len(n.v) : n.v[i][1] = key][2]

\* Some mapping above position p carries the key.
HasAncestorWith(d, p, key) ==
    \E n \in 0..(Len(p) - 1) : DictHas(NodeAt(d, Prefix(p, n)), key)

\* The value of the key at the nearest mapping above p that carries it.
NearestAncestorValue(d, p, key) ==
    LET n == CHOOSE m \in 0..(Len(p) - 1) :
                 /\ DictHas(NodeAt(d, Prefix(p, m)), key)
                 /\ \A l \in (m + 1)..(Len(p) - 1) :
                        ~DictHas(NodeAt(d, Prefix(p, l)), key)
    IN DictAt(NodeAt(d, Prefix(p, n)), key)

\* The place in the output of the record extracted at position p.
OutputIndex(d, p) ==
    1 + Cardinality({ q \in ReachableRecordPaths(d) : VisitBefore(d, q, p) })

\* C2 as stated: a record extracted from beneath mappings that carry a
\* contextual identifier has the nearest such mapping's value under that key
\* in its metadata, whatever its own mapping holds.
C2_AsStated ==
    pc = "extracted" =>
        \A p \in ReachableRecordPaths(data) : \A key \in ContextKeySet :
            HasAncestorWith(data, p, key) =>
                LET meta == evaluations[OutputIndex(data, p)].metadata
                IN /\ key \in DOMAIN meta
                   /\ meta[key] = NearestAncestorValue(data, p, key)

\* C2 (amended): such a record has the identifier in its metadata, with the
\* nearest carrying ancestor's value, unless the record's own mapping has a
\* scalar field of that name: then the record's own value is there.
C2_InheritedUnlessOwnScalar ==
    pc = "extracted" =>
        \A p \in ReachableRecordPaths(data) : \A key \in ContextKeySet :
            HasAncestorWith(data, p, key) =>
                LET meta == evaluations[OutputIndex(data, p)].metadata
                    own == NodeAt(data, p)
                    ownScalar == /\ DictHas(own, key)
                                 /\ DictAt(own, key).k \in {"str", "num", "bool"}
                IN /\ key \in DOMAIN meta
                   /\ meta[key] = IF ownScalar THEN DictAt(own, key)
                                  ELSE NearestAncestorValue(data, p, key)

\* A record without session_id under two mappings with different session
\* ids: the nearer one's is in its metadata.
C2_Witness ==
    /\ pc = "extracted"
    /\ DictHas(data, "session_id") /\ DictAt(data, "session_id") = Str("S1")
    /\ DictHas(data, "results")
    /\ DictHas(DictAt(data, "results"), "session_id")
    /\ DictAt(DictAt(data, "results"), "session_id") = Str("S2")
    /\ Len(evaluations) = 1
    /\ ~DictHas(NodeAt(data, CHOOSE p \in ReachableRecordPaths(data) : TRUE),
                "session_id")
    /\ evaluations[1].metadata["session_id"] = Str("S2")

(***************************************************************************)
(* C3                                                                      *)
(***************************************************************************)
\* C3: a mapping is made a record exactly when it has an `explanation` key
\* and a `score` or `value` key; the record's score is the value of `score`
\* when that key is present (also beside `value`), else the value of `value`.
\* A mapping that is not made a record yields only what lies beneath it.
C3_RecordPredicate ==
    (pc = "extracted" /\ data.k = "dict") =>
        IF DictHas(data, "explanation")
             /\ (DictHas(data, "score") \/ DictHas(data, "value"))
        THEN /\ Len(evaluations) = 1
             /\ evaluations[1].explanation = DictAt(data, "explanation")
             /\ DictHas(data, "score") =>
                    evaluations[1].score = DictAt(data, "score")
             /\ ~DictHas(data, "score") =>
                    evaluations[1].score = DictAt(data, "value")
        ELSE Len(evaluations) =
                 Cardinality({ p \in ReachableRecordPaths(data) : Len(p) > 0 })

\* A mapping with score, value and explanation, extracted with its score.
C3_Witness ==
    /\ pc = "extracted"
    /\ DictHas(data, "score") /\ DictHas(data, "value")
    /\ DictHas(data, "explanation")
    /\ DictAt(data, "score") # DictAt(data, "value")
    /\ Len(evaluations) = 1
    /\ evaluations[1].score = DictAt(data, "score")

(***************************************************************************)
(* C4                                                                      *)
(***************************************************************************)
\* The metadata made of the context and of the scalar fields of a mapping
\* whose keys are not in `excluded`.
MergedMetadata(n, context, excluded) ==
    LET own == { i \in 1..Len(n.v) :
                   /\ n.v[i][1] \notin excluded
                   /\ n.v[i][2].k \in {"str", "num", "bool"} }
        ownKeys == { n.v[i][1] : i \in own }
    IN [key \in (DOMAIN context) \cup ownKeys |->
           IF key \in ownKeys THEN DictAt(n, key) ELSE context[key]]

\* C4 as stated: the metadata of a record is the context overridden by the
\* scalar fields other than the field the score came from and `explanation`,
\* and no object- or array-valued field of the mapping is in it.
C4_AsStated ==
    (pc = "extracted" /\ RecordShaped(data)) =>
        LET used == IF DictHas(data, "score") THEN "score" ELSE "value"
        IN /\ Len(evaluations) = 1
           /\ evaluations[1].metadata =
                  MergedMetadata(data, parent_metadata, {used, "explanation"})
           /\ \A i \in 1..Len(data.v) :
                  (/\ data.v[i][2].k \in {"list", "dict"}
                   /\ data.v[i][1] \in DOMAIN evaluations[1].metadata) =>
                      evaluations[1].metadata[data.v[i][1]] # data.v[i][2]

\* C4 (amended): the metadata of a record is the context overridden by the
\* scalar fields of the mapping other than `score`, `value` and
\* `explanation` (both score keys are left out, whichever the score came
\* from); a field whose value is an object, an array or null adds nothing,
\* and a context entry under its key stays.
C4_ContextPlusScalarFields ==
    (pc = "extracted" /\ RecordShaped(data)) =>
        /\ Len(evaluations) = 1
        /\ evaluations[1].metadata =
               MergedMetadata(data, parent_metadata,
                              {"score", "value", "explanation"})

\* A record with both score keys, a scalar field and an array-valued field
\* whose key the context holds.
C4_Witness ==
    /\ pc = "extracted"
    /\ RecordShaped(data)
    /\ DictHas(data, "score") /\ DictHas(data, "value")
    /\ DictHas(data, "note") /\ DictAt(data, "note") = Bool(TRUE)
    /\ DictHas(data, "session_id") /\ DictAt(data, "session_id").k = "list"
    /\ "session_id" \in DOMAIN parent_metadata
    /\ Len(evaluations) = 1
    /\ DOMAIN evaluations[1].metadata = {"source_file", "session_id", "note"}
    /\ evaluations[1].metadata["session_id"] = parent_metadata["session_id"]

(***************************************************************************)
(* C5                                                                      *)
(***************************************************************************)
\* C5: every value in the metadata of every extracted record is a string, a
\* number or a boolean.
C5_MetadataScalar ==
    pc = "extracted" =>
        \A i \in 1..Len(evaluations) :
            \A key \in DOMAIN evaluations[i].metadata :
                evaluations[i].metadata[key].k \in {"str", "num", "bool"}

(***************************************************************************)
(* C6                                                                      *)
(***************************************************************************)
\* The record-shaped mappings with a field of another name than results,
\* evaluations, data, items on the way to them.
HiddenRecordPaths(d) == { p \in TopRecordPaths(d) : ~ViaContainers(d, p) }

\* C6: the records extracted are those of the record-shaped mappings that
\* are not behind a field of another name than results, evaluations, data,
\* items: a mapping behind such a field adds no record.
C6_OnlyContainerFields ==
    pc = "extracted" =>
        /\ Len(evaluations) =
               Cardinality(TopRecordPaths(data))
                 - Cardinality(HiddenRecordPaths(data))
        /\ \A i \in 1..Len(evaluations) :
               \E p \in TopRecordPaths(data) \ HiddenRecordPaths(data) :
                   Core(evaluations[i]) = Emitted(NodeAt(data, p))

\* A mapping with one record under `foo` and another under a container
\* key: only the second is extracted.
C6_Witness ==
    /\ pc = "extracted"
    /\ DictHas(data, "foo") /\ RecordShaped(DictAt(data, "foo"))
    /\ \E key \in {"results", "items"} :
           /\ DictHas(data, key)
           /\ RecordShaped(DictAt(data, key))
           /\ DictAt(data, key) # DictAt(data, "foo")
           /\ evaluations = <<[score |-> DictAt(DictAt(data, key), "score"),
                               explanation |->
                                   DictAt(DictAt(data, key), "explanation"),
                               metadata |-> parent_metadata]>>

NonNumericAsNull(evals) ==
    [i \in 1..Len(evals) |->
        IF evals[i].score.k \in {"null", "num", "bool"} THEN evals[i]
        ELSE [evals[i] EXCEPT !.score = None]]

HasNonNumericScore(evals) ==
    \E i \in 1..Len(evals) : evals[i].score.k \notin {"null", "num", "bool"}

\* C8: on a list with scores that are neither None nor numbers, and with a
\* threshold in [0, 1], compute_statistics returns, and returns what it
\* returns for the list with those scores made None.
C8_NonNumericAsAbsent ==
    (/\ pc = "stats_done"
     /\ HasNonNumericScore(evaluations)
     /\ threshold \in 0..10) =>
        /\ stats.raised = ""
        /\ stats = compute_statistics(NonNumericAsNull(evaluations), threshold)

(***************************************************************************)
(* C9                                                                      *)
(***************************************************************************)
\* C9: for a batch size of 0 or less batch_evaluations raises and returns
\* nothing, whatever the list.
C9_NonPositiveSizeRaises ==
    (pc = "batched" /\ batch_size <= 0) => batches.raised = "ValueError"

(***************************************************************************)
(* C10                                                                     *)
(***************************************************************************)
\* C10: for a threshold below 0 or above 1 compute_statistics, given
\* records, raises and returns no statistics.
C10_ThresholdOutOfRangeRaises ==
    (/\ pc = "stats_done"
     /\ evaluations # <<>>
     /\ (threshold < 0 \/ threshold > 10)) =>
        stats.raised = "ValueError"

(***************************************************************************)
(* Vocabulary of the partition properties.                                 *)
(***************************************************************************)
RECURSIVE Concat(_)
\* The concatenation of a sequence of sequences.
Concat(ss) == IF ss = <<>> THEN <<>> ELSE Head(ss) \o Concat(Tail(ss))

\* ceil(n / b) for n >= 0 and b > 0: the least k with k * b >= n.
CeilDiv(n, b) == CHOOSE k \in 0..n : k * b >= n /\ (k = 0 \/ (k - 1) * b < n)

(***************************************************************************)
(* C11                                                                     *)
(***************************************************************************)
\* C11: for a positive batch size b, batch_evaluations returns
\* ceil(len(L) / b) batches, none longer than b, all but the last of length
\* b, whose concatenation is L.
C11_PartitionExact ==
    (pc = "batched" /\ batch_size > 0) =>
        /\ batches.raised = ""
        /\ Len(batches.value) = CeilDiv(Len(evaluations), batch_size)
        /\ \A j \in 1..Len(batches.value) :
              /\ Len(batches.value[j]) <= batch_size
              /\ j < Len(batches.value) => Len(batches.value[j]) = batch_size
        /\ Concat(batches.value) = evaluations

\* 23 records in batches of 10: two batches of 10 and one of 3.
C11_Witness ==
    /\ pc = "batched"
    /\ Len(evaluations) = 23
    /\ batch_size = BATCH_SIZE
    /\ batches.raised = ""
    /\ [j \in 1..Len(batches.value) |-> Len(batches.value[j])] = <<10, 10, 3>>

(***************************************************************************)
(* C12                                                                     *)
(***************************************************************************)
\* C12: for a positive batch size the empty list gives the empty sequence
\* of batches, and no returned sequence of batches holds an empty batch.
C12_NoEmptyBatch ==
    (pc = "batched" /\ batches.raised = "") =>
        /\ (batch_size > 0 /\ evaluations = <<>>) => batches.value = <<>>
        /\ \A j \in 1..Len(batches.value) : batches.value[j] # <<>>

\* The empty list, partitioned with a positive batch size.
C12_Witness ==
    /\ pc = "batched"
    /\ batch_size > 0
    /\ evaluations = <<>>
    /\ batches = Return(<<>>)

(***************************************************************************)
(* Vocabulary of the aggregation properties, stated on the record list.    *)
(***************************************************************************)
\* The positions of the records with a score.
ValidIdx(evals) == { i \in 1..Len(evals) : evals[i].score.k # "null" }

\* The positions of the records with a score below the threshold.
LowIdx(evals, thr) == { i \in ValidIdx(evals) : evals[i].score.v < thr }

\* A call on records of the data model: at least one record, every score a
\* number or null.
WellTypedCall ==
    /\ pc = "stats_done"
    /\ evaluations # <<>>
    /\ ~HasNonNumericScore(evaluations)

(***************************************************************************)
(* C14                                                                     *)
(***************************************************************************)
\* C14: low_scoring_count is the number of records with a score strictly
\* below the threshold, a score equal to it not counted; the scores 0.2,
\* 0.4, 0.6, 0.8 with threshold 0.5 give low_scoring_count 2,
\* low_scoring_pct 50.0 and mean_score 0.5.
C14_LowScoringCount ==
    WellTypedCall =>
        /\ stats.raised = ""
        /\ stats.value.low_scoring_count =
               Cardinality(LowIdx(evaluations, threshold))
        /\ (evaluations = QuartetRecs /\ threshold = 5) =>
               /\ stats.value.low_scoring_count = 2
               /\ stats.value.low_scoring_pct = Num(500)
               /\ stats.value.mean_score = Num(500)

\* The four scores of the example with threshold 0.5, and its result.
C14_Witness ==
    /\ pc = "stats_done"
    /\ [i \in 1..Len(evaluations) |-> evaluations[i].score] =
           <<Num(2), Num(4), Num(6), Num(8)>>
    /\ threshold = 5
    /\ stats.raised = ""
    /\ stats.value.low_scoring_count = 2
    /\ stats.value.low_scoring_pct = Num(500)
    /\ stats.value.mean_score = Num(500)

(***************************************************************************)
(* C15                                                                     *)
(***************************************************************************)
\* C15 as stated: low_scoring_pct is exactly 100 * low_scoring_count /
\* valid_scores when valid_scores > 0, and 0 when valid_scores is 0.
C15_AsStated ==
    WellTypedCall =>
        /\ stats.raised = ""
        /\ IF stats.value.valid_scores > 0
           THEN stats.value.low_scoring_pct.v * stats.value.valid_scores =
                    1000 * stats.value.low_scoring_count
           ELSE stats.value.low_scoring_pct = Num(0)

\* C15: low_scoring_pct is 100 * low_scoring_count / valid_scores rounded
\* to one decimal (a nearest multiple of 0.1) when valid_scores > 0, and 0
\* when valid_scores is 0.
C15_PctRoundedToTenth ==
    WellTypedCall =>
        /\ stats.raised = ""
        /\ stats.value.low_scoring_pct.k = "num"
        /\ LET p == stats.value.low_scoring_pct.v
               n == stats.value.valid_scores
               exact == 1000 * stats.value.low_scoring_count
           IN IF n > 0
              THEN /\ 2 * (p * n - exact) <= n
                   /\ 2 * (exact - p * n) <= n
              ELSE p = 0

\* Two low scores of three: 66.666... percent reported as 66.7.
C15_Witness ==
    /\ pc = "stats_done"
    /\ stats.raised = ""
    /\ stats.value.total > 0
    /\ stats.value.valid_scores = 3
    /\ stats.value.low_scoring_count = 2
    /\ stats.value.low_scoring_pct = Num(667)

(***************************************************************************)
(* C16                                                                     *)
(***************************************************************************)
\* The records with a score, in their order.
WithScore(evals) == SelectSeq(evals, LAMBDA e : e.score.k # "null")

\* The sum of the per-evaluator counts of a result.
RECURSIVE CountSum(_, _)
CountSum(by, evs) ==
    IF evs = {} THEN 0
    ELSE LET ev == CHOOSE x \in evs : TRUE
         IN by[ev].count + CountSum(by, evs \ {ev})

\* C16: total counts every record, valid_scores the records with a score;
\* a record without a score changes nothing else: every other field is
\* what the call gives for the list without such records, and the
\* per-evaluator counts add up to valid_scores.
C16_NullScoresCountOnlyInTotal ==
    WellTypedCall =>
        /\ stats.raised = ""
        /\ stats.value.total = Len(evaluations)
        /\ stats.value.valid_scores = Cardinality(ValidIdx(evaluations))
        /\ CountSum(stats.value.by_evaluator,
                    DOMAIN stats.value.by_evaluator) = stats.value.valid_scores
        /\ LET kept == WithScore(evaluations)
           IN kept # <<>> =>
                [stats.value EXCEPT !.total = Len(kept)] =
                    compute_statistics(kept, threshold).value

\* A record of evaluator B without a score next to records with scores:
\* counted in total only, and B is no key of by_evaluator.
C16_Witness ==
    /\ WellTypedCall
    /\ stats.raised = ""
    /\ \E i \in 1..Len(evaluations) :
          /\ evaluations[i].score = None
          /\ "evaluator_name" \in DOMAIN evaluations[i].metadata
    /\ stats.value.total = 3
    /\ stats.value.valid_scores = 2
    /\ Str("B") \notin DOMAIN stats.value.by_evaluator

(***************************************************************************)
(* C17                                                                     *)
(***************************************************************************)
\* C17: for records that all lack a score the call returns: mean, min, max
\* and stdev are null, low_scoring_count and low_scoring_pct are 0,
\* by_evaluator is empty and total is the number of records.
C17_AllScoresNull ==
    (/\ pc = "stats_done"
     /\ evaluations # <<>>
     /\ \A i \in 1..Len(evaluations) : evaluations[i].score = None) =>
        /\ stats.raised = ""
        /\ stats.value.total = Len(evaluations)
        /\ stats.value.valid_scores = 0
        /\ stats.value.mean_score = None
        /\ stats.value.min_score = None
        /\ stats.value.max_score = None
        /\ stats.value.stdev = None
        /\ stats.value.low_scoring_count = 0
        /\ stats.value.low_scoring_pct = Num(0)
        /\ DOMAIN stats.value.by_evaluator = {}

\* Two records without a score under a threshold above every score.
C17_Witness ==
    /\ pc = "stats_done"
    /\ Len(evaluations) = 2
    /\ \A i \in 1..Len(evaluations) : evaluations[i].score = None
    /\ threshold = 11
    /\ stats.raised = ""
    /\ stats.value.total = 2

(***************************************************************************)
(* C18                                                                     *)
(***************************************************************************)
\* C18: the overall stdev is non-null exactly when valid_scores >= 2, and
\* a per-evaluator entry has a stdev field exactly when its count is > 1.
C18_StdevNeedsTwoScores ==
    WellTypedCall =>
        /\ stats.raised = ""
        /\ stats.value.stdev # None <=> stats.value.valid_scores >= 2
        /\ \A ev \in DOMAIN stats.value.by_evaluator :
              "stdev" \in DOMAIN stats.value.by_evaluator[ev]
                  <=> stats.value.by_evaluator[ev].count > 1

\* Three scores, two of evaluator A and one of no evaluator: an overall
\* stdev, a stdev for A and none for "unknown".
C18_Witness ==
    /\ WellTypedCall
    /\ stats.raised = ""
    /\ stats.value.valid_scores = 3
    /\ stats.value.stdev # None
    /\ DOMAIN stats.value.by_evaluator = {Str("A"), Str("unknown")}
    /\ "stdev" \in DOMAIN stats.value.by_evaluator[Str("A")]
    /\ "stdev" \notin DOMAIN stats.value.by_evaluator[Str("unknown")]

(***************************************************************************)
(* C19                                                                     *)
(***************************************************************************)
\* The name a record is grouped under, as the claim words it.
GroupName(e) ==
    CASE "evaluator_name" \in DOMAIN e.metadata -> e.metadata.evaluator_name
      [] /\ "evaluator_name" \notin DOMAIN e.metadata
         /\ "label" \in DOMAIN e.metadata -> e.metadata.label
      [] OTHER -> Str("unknown")

\* C19: the records with a score are grouped by the metadata key
\* evaluator_name, by label when that is absent, and under "unknown" when
\* both are absent; evaluator_name wins over label.
C19_GroupingKey ==
    WellTypedCall =>
        /\ stats.raised = ""
        /\ DOMAIN stats.value.by_evaluator =
               { GroupName(evaluations[i]) : i \in ValidIdx(evaluations) }
        /\ \A ev \in DOMAIN stats.value.by_evaluator :
              stats.value.by_evaluator[ev].count =
                  Cardinality({ i \in ValidIdx(evaluations) :
                                  GroupName(evaluations[i]) = ev })

\* A record with both keys, one with a label only and one with neither:
\* the groups are A, L and "unknown".
C19_Witness ==
    /\ WellTypedCall
    /\ stats.raised = ""
    /\ \E i \in 1..Len(evaluations) :
          /\ evaluations[i].score # None
          /\ DOMAIN evaluations[i].metadata = {"evaluator_name", "label"}
    /\ DOMAIN stats.value.by_evaluator = {Str("A"), Str("L"), Str("unknown")}

(***************************************************************************)
(* Vocabulary of the dashboard properties, stated on EVALUATION_DATA.      *)
(***************************************************************************)
\* The value under a key of a mapping, Null when the key is missing.
FieldOrNull(d, key) ==
    IF \E i \in 1..Len(d.v) : d.v[i][1] = key
    THEN d.v[CHOOSE i \in 1..Len(d.v) : d.v[i][1] = key][2]
    ELSE Null

\* The result entries of a session bundle.
BundleResults(session) ==
    IF FieldOrNull(session, "results").k = "list"
    THEN FieldOrNull(session, "results").v
    ELSE <<>>

\* The positions <<session, result>> of the result entries.
EntryIdx(sessions) ==
    UNION { { <<a, b>> : b \in 1..Len(BundleResults(sessions[a])) } :
              a \in 1..Len(sessions) }

EntryAt(sessions, e) == BundleResults(sessions[e[1]])[e[2]]

\* The positions of the entries with a value that is not null.
ValueIdx(sessions) ==
    { e \in EntryIdx(sessions) :
        FieldOrNull(EntryAt(sessions, e), "value").k = "num" }

\* The value of an entry, in hundredths.
ValueAt(sessions, e) == FieldOrNull(EntryAt(sessions, e), "value").v

\* The bin of the claim for a value v >= 0, in hundredths: bin j, counted
\* from 0, holds [j / 10, (j + 1) / 10), and the last one all from 0.9 up.
InBin(v, j) ==
    \/ j < 9 /\ 10 * j <= v /\ v < 10 * (j + 1)
    \/ j = 9 /\ v >= 90

(***************************************************************************)
(* C20                                                                     *)
(***************************************************************************)
\* C20: the score chart has exactly 10 bins; every non-null value v >= 0
\* is counted in bin min(floor(10 v), 9), so 1.0 and above in the 10th
\* bin and in no 11th; when all non-null values are in [0, 1] the bin
\* counts add up to the number of non-null values.
C20_TenBinsClamped ==
    pc = "ready" =>
        LET bins == charts.score.bins
            valued == ValueIdx(EVALUATION_DATA)
        IN /\ DOMAIN bins = 0..9
           /\ \A j \in 0..9 :
                bins[j] = Cardinality({ e \in valued :
                              /\ ValueAt(EVALUATION_DATA, e) >= 0
                              /\ InBin(ValueAt(EVALUATION_DATA, e), j) })
           /\ (\A e \in valued : ValueAt(EVALUATION_DATA, e) >= 100)
                 => /\ bins[9] = Cardinality(valued)
                    /\ charts.score.other = {}
           /\ (\A e \in valued : ValueAt(EVALUATION_DATA, e) \in 0..100)
                 => Sum([j \in 1..10 |-> bins[j - 1]]) = Cardinality(valued)

\* The values 1.0 and 1.2 and one without a value: two counted, both in
\* the 10th bin.
C20_Witness ==
    /\ pc = "ready"
    /\ { FieldOrNull(EntryAt(EVALUATION_DATA, e), "value") :
           e \in EntryIdx(EVALUATION_DATA) } = {Num(100), Num(120), Null}
    /\ Cardinality(ValueIdx(EVALUATION_DATA)) = 2
    /\ charts.score.bins[9] = 2
    /\ charts.score.other = {}

(***************************************************************************)
(* C13                                                                     *)
(***************************************************************************)
\* Reading CSV text: fields are separated by commas and rows end with a
\* line feed; a field that starts with a quote runs to its closing quote,
\* a doubled quote inside it standing for one quote; a character after a
\* closing quote is taken as part of the field.  `mode` is "start" at the
\* start of a field, "plain" inside an unquoted field, "quoted" inside a
\* quoted one and "closed" after a quote inside a quoted field.
RECURSIVE ParseRow(_, _, _, _, _)
\* The row that starts at position i: its fields and the position after it.
ParseRow(text, i, mode, field, row) ==
    CASE i > Len(text) ->
           [fields |-> Append(row, field), next |-> i]
      [] i <= Len(text) /\ mode = "quoted" ->
           IF text[i] = "\""
           THEN ParseRow(text, i + 1, "closed", field, row)
           ELSE ParseRow(text, i + 1, "quoted", Append(field, text[i]), row)
      [] i <= Len(text) /\ mode # "quoted" /\ text[i] = "\n" ->
           [fields |-> Append(row, field), next |-> i + 1]
      [] i <= Len(text) /\ mode # "quoted" /\ text[i] = "," ->
           ParseRow(text, i + 1, "start", <<>>, Append(row, field))
      [] i <= Len(text) /\ mode = "start" /\ text[i] = "\"" ->
           ParseRow(text, i + 1, "quoted", <<>>, row)
      [] i <= Len(text) /\ mode = "closed" /\ text[i] = "\"" ->
           ParseRow(text, i + 1, "quoted", Append(field, text[i]), row)
      [] OTHER ->
           ParseRow(text, i + 1, "plain", Append(field, text[i]), row)

RECURSIVE ParseCsv(_, _)
\* The rows of the text from position i on.
ParseCsv(text, i) ==
    IF i > Len(text) THEN <<>>
    ELSE LET r == ParseRow(text, i, "start", <<>>, <<>>)
         IN <<r.fields>> \o ParseCsv(text, r.next)

\* The rows of a CSV text after its header row.
CsvRecords(text) == Tail(ParseCsv(text, 1))

DigitSet == {"0", "1", "2", "3", "4", "5", "6", "7", "8", "9"}

\* The number a sequence of digits writes.
RECURSIVE Natural(_)
Natural(cs) ==
    IF cs = <<>> THEN 0
    ELSE 10 * Natural(SubSeq(cs, 1, Len(cs) - 1))
         + (CHOOSE d \in 0..9 : ToString(d) = cs[Len(cs)])

AllDigits(cs) == cs # <<>> /\ \A i \in 1..Len(cs) : cs[i] \in DigitSet

\* What a number field of a row reads as: the number, in hundredths, that
\* the text writes with at most two decimals; null for an empty field; the
\* text itself when it writes no such number.
RECURSIVE CsvNumber(_)
CsvNumber(cs) ==
    IF cs = <<>> THEN Null
    ELSE IF Head(cs) = "-"
    THEN LET n == CsvNumber(Tail(cs))
         IN IF n.k = "num" THEN Num(-n.v) ELSE Str(cs)
    ELSE IF AllDigits(cs) THEN Num(100 * Natural(cs))
    ELSE IF \E p \in 2..(Len(cs) - 1) :
               /\ cs[p] = "."
               /\ AllDigits(SubSeq(cs, 1, p - 1))
               /\ AllDigits(SubSeq(cs, p + 1, Len(cs)))
               /\ Len(cs) - p <= 2
    THEN LET p == CHOOSE q \in 2..(Len(cs) - 1) : cs[q] = "."
             frac == SubSeq(cs, p + 1, Len(cs))
         IN Num(100 * Natural(SubSeq(cs, 1, p - 1))
                + (IF Len(frac) = 1 THEN 10 ELSE 1) * Natural(frac))
    ELSE Str(cs)

\* The result entries of the data in order, each with its session.
RECURSIVE Entries(_)
Entries(sessions) ==
    IF sessions = <<>> THEN <<>>
    ELSE LET rs == BundleResults(Head(sessions))
         IN [b \in 1..Len(rs) |-> <<Head(sessions), rs[b]>>]
            \o Entries(Tail(sessions))

\* The text of a string field of the input; a missing or null label is
\* the empty text.
TextOrEmpty(val) == IF val.k = "str" THEN val.v ELSE <<>>

\* The total tokens of an entry; no count is none used.
TotalTokens(r) ==
    LET usage == FieldOrNull(r, "token_usage")
    IN IF usage.k = "dict" /\ FieldOrNull(usage, "totalTokens").k = "num"
       THEN FieldOrNull(usage, "totalTokens")
       ELSE Num(0)

\* A parsed row gives back the tuple of an entry.
RowMatches(fields, entry) ==
    /\ Len(fields) = 5
    /\ fields[1] = TextOrEmpty(FieldOrNull(entry[1], "session_id"))
    /\ fields[2] = TextOrEmpty(FieldOrNull(entry[2], "evaluator_id"))
    /\ CsvNumber(fields[3]) = FieldOrNull(entry[2], "value")
    /\ fields[4] = TextOrEmpty(FieldOrNull(entry[2], "label"))
    /\ CsvNumber(fields[5]) = TotalTokens(entry[2])

\* C13: the CSV that exportToCSV produces, parsed, has one row per result
\* entry, and the row gives back the entry's session id, evaluator id,
\* score, label and total tokens, a score of 0 included.
C13_CsvRoundTrip ==
    (pc = "ready" /\ csv # <<>>) =>
        LET rows == CsvRecords(csv)
            entries == Entries(EVALUATION_DATA)
        IN /\ Len(rows) = Len(entries)
           /\ \A n \in 1..Len(rows) : RowMatches(rows[n], entries[n])

(***************************************************************************)
(* C27                                                                     *)
(***************************************************************************)
\* C27: for a non-empty list of records with null or numeric scores,
\* low_scoring_count <= valid_scores <= total, the per-evaluator counts
\* add up to valid_scores, every by_evaluator entry has a count of 1 or
\* more, and an evaluator whose records all lack a score has no entry.
C27_CountsConsistent ==
    WellTypedCall =>
        /\ stats.raised = ""
        /\ stats.value.low_scoring_count <= stats.value.valid_scores
        /\ stats.value.valid_scores <= stats.value.total
        /\ CountSum(stats.value.by_evaluator,
                    DOMAIN stats.value.by_evaluator) = stats.value.valid_scores
        /\ \A ev \in DOMAIN stats.value.by_evaluator :
              /\ stats.value.by_evaluator[ev].count >= 1
              /\ \E i \in ValidIdx(evaluations) :
                    GroupName(evaluations[i]) = ev

\* A record without a score and without an evaluator next to a low score
\* of the same group and a record of B without a score: "unknown" counts
\* one record and B has no entry.
C27_Witness ==
    /\ WellTypedCall
    /\ stats.raised = ""
    /\ stats.value.total = 3
    /\ stats.value.valid_scores = 1
    /\ stats.value.low_scoring_count = 1
    /\ \E i \in 1..Len(evaluations) :
          evaluations[i].score = None /\ GroupName(evaluations[i]) = Str("B")
    /\ \E i \in 1..Len(evaluations) :
          evaluations[i].score = None
              /\ GroupName(evaluations[i]) = Str("unknown")
    /\ DOMAIN stats.value.by_evaluator = {Str("unknown")}
    /\ stats.value.by_evaluator[Str("unknown")].count = 1

(***************************************************************************)
(* Vocabulary of the properties of eval-auto.py.                           *)
(***************************************************************************)
\* The records of a list with a score below the script's threshold, in
\* the order of the list.
RECURSIVE LowRecords(_)
LowRecords(evals) ==
    IF evals = <<>> THEN <<>>
    ELSE (IF Head(evals).score.k = "num" /\ Head(evals).score.v < SCORE_THRESHOLD
          THEN <<Head(evals)>> ELSE <<>>)
         \o LowRecords(Tail(evals))

(***************************************************************************)
(* C21                                                                     *)
(***************************************************************************)
\* C21: when the files yield no record the script reports an error and
\* ends with a failure status, and neither compute_statistics nor the
\* batching, the analyzer or the report write is reached.
C21_EmptyInputExits ==
    (/\ pc \notin {"check_prompt", "check_folder", "load"}
     /\ auto.prompt = "ok"
     /\ auto.folder # Missing
     /\ auto.folder.v # <<>>
     /\ evaluations = <<>>) =>
        /\ pc = "exit"
        /\ auto.exit_status = "1"
        /\ auto.error = "ERROR: No evaluations found in JSON files!"
        /\ stats = Idle
        /\ batches = Idle
        /\ ~auto.called
        /\ ~auto.report

\* Two files, one that is no JSON and one without a record: the run has
\* ended with the error.
C21_Witness ==
    /\ pc = "exit"
    /\ auto.folder # Missing
    /\ Len(auto.folder.v) = 2
    /\ auto.folder.v[1] = Invalid
    /\ auto.folder.v[2] # Invalid
    /\ evaluations = <<>>
    /\ auto.exit_status = "1"
    /\ auto.error = "ERROR: No evaluations found in JSON files!"

(***************************************************************************)
(* C29                                                                     *)
(***************************************************************************)
\* C29: in every run that reaches the analysis the batches handed to the
\* orchestrator hold stats['low_scoring_count'] records in all, and they
\* are exactly the records with a score below SCORE_THRESHOLD, in load
\* order.
C29_BatchesAgreeWithStats ==
    auto.called =>
        /\ stats.raised = ""
        /\ Len(Concat(auto.orchestrated)) = stats.value.low_scoring_count
        /\ Concat(auto.orchestrated) = LowRecords(evaluations)
        /\ auto.orchestrated = batches.value

\* Twelve low scores and a score equal to the threshold: thirteen records
\* loaded, twelve analysed in batches of 10 and 2.
C29_Witness ==
    /\ auto.called
    /\ Len(evaluations) = 13
    /\ \E i \in 1..Len(evaluations) : evaluations[i].score = Num(SCORE_THRESHOLD)
    /\ stats.value.low_scoring_count = 12
    /\ [j \in 1..Len(auto.orchestrated) |-> Len(auto.orchestrated[j])] = <<10, 2>>

(***************************************************************************)
(* C30                                                                     *)
(***************************************************************************)
\* C30: the orchestrator is called and a report is written only if some
\* record has a score below SCORE_THRESHOLD; without one the script ends
\* with status 0 before the analysis; the orchestrator gets at least one
\* batch and no empty batch.
C30_AnalysisOnlyWithWork ==
    /\ (auto.called \/ auto.report \/ pc \in {"analyze", "save"}) =>
          /\ LowRecords(evaluations) # <<>>
          /\ auto.low_scoring # <<>>
    /\ auto.called =>
          /\ auto.orchestrated # <<>>
          /\ \A j \in 1..Len(auto.orchestrated) : auto.orchestrated[j] # <<>>
    /\ (/\ pc \notin {"check_prompt", "check_folder", "load", "statistics",
                       "select"}
        /\ stats # Idle
        /\ stats.raised = ""
        /\ LowRecords(evaluations) = <<>>) =>
          /\ pc = "exit"
          /\ auto.exit_status = "0"
          /\ ~auto.called
          /\ ~auto.report
          /\ batches = Idle

\* A run over records none of which is low ends with status 0 and
\* without analysis.
C30_Witness ==
    /\ pc = "exit"
    /\ Len(evaluations) = 3
    /\ stats # Idle
    /\ stats.raised = ""
    /\ stats.value.low_scoring_count = 0
    /\ auto.exit_status = "0"
    /\ ~auto.called
    /\ ~auto.report

(***************************************************************************)
(* C24                                                                     *)
(***************************************************************************)
\* The number of times a message is in a log.
Times(log, message) == Cardinality({ i \in 1..Len(log) : log[i] = message })

\* C24: on-demand.py makes at most 3 attempts; an attempt after the first
\* follows a wait, which follows a RuntimeError with "No spans found" in
\* an attempt before the third; any other exception, and that error in
\* the third attempt, leaves the script; the results are displayed only
\* after an attempt in which all three calls returned.
C24_BoundedRetry ==
    ondemand # Idle =>
        /\ ondemand.attempt \in 1..3
        /\ Times(ondemand.log, "attempt") = ondemand.attempt
        /\ Times(ondemand.log, "waiting") = ondemand.attempt - 1
        /\ pc = "raised" <=> ondemand.raised # Returned
        /\ ondemand.last # Returned =>
              \/ pc = "raised" /\ ondemand.raised = ondemand.last
              \/ /\ ondemand.last.class = "RuntimeError"
                 /\ ondemand.last.no_spans
                 /\ pc = "evaluate"
                 /\ ondemand.call = 1
                 /\ ondemand.attempt \in 2..3
        /\ ondemand.raised # Returned =>
              /\ (ondemand.raised.class = "RuntimeError"
                      /\ ondemand.raised.no_spans) => ondemand.attempt = 3
              /\ ~ondemand.displayed
        /\ pc \in {"display", "done"} =>
              /\ ondemand.goal_sucess_results # None
              /\ ondemand.correctness_results # None
              /\ ondemand.parameter_results # None
              /\ ondemand.goal_sucess_results.attempt = ondemand.attempt
              /\ ondemand.correctness_results.attempt = ondemand.attempt
              /\ ondemand.parameter_results.attempt = ondemand.attempt
        /\ ondemand.displayed => pc = "done"

\* Two attempts that end with "No spans found", the second after its
\* first call had returned, and a third in which all calls return.
C24_Witness ==
    /\ pc = "done"
    /\ ondemand # Idle
    /\ ondemand.displayed
    /\ ondemand.attempt = 3
    /\ ondemand.log = <<"attempt", "waiting", "attempt", "waiting", "attempt",
                        "successful", "print">>
    /\ ondemand.parameter_results.attempt = 3

(***************************************************************************)
(* C23                                                                     *)
(***************************************************************************)
\* C23: in eval-by-sessionid.py, after an evaluator run has raised a
\* RuntimeError with "No spans found", the script has waited and started
\* the groups again in a further attempt, of 3 at most, or, in the third
\* attempt, has let the error leave the script.
C23_RetryOnNoSpans ==
    (/\ bysession # Idle
     /\ bysession.last.class = "RuntimeError"
     /\ bysession.last.no_spans) =>
        \/ /\ pc = "raised"
           /\ bysession.raised = bysession.last
           /\ bysession.attempt = 3
        \/ /\ pc = "evaluate"
           /\ bysession.attempt \in 2..3
           /\ bysession.group = 1
           /\ bysession.evaluator = 1
           /\ Times(bysession.log, "waiting") = bysession.attempt - 1

(***************************************************************************)
(* C22                                                                     *)
(***************************************************************************)
\* C22: a call of generate_dashboard with an empty list writes no
\* dashboard file, and what it prints is not what a call with sessions
\* prints.
C22_EmptyInputSurfaced ==
    (evaluation_data = Lst(<<>>) /\ pc # "generate") =>
        /\ dashboard_file = ""
        /\ pc \notin {"load", "ready"}
        /\ "Dashboard generated" \notin { printed[i] : i \in DOMAIN printed }

(***************************************************************************)
(* C25                                                                     *)
(***************************************************************************)
\* C25: in every batch result of eval-by-pipeline.py, two entries of the
\* evaluations list that name the same evaluator come from runs of the
\* same attempt: no evaluator has results of more than one run.
C25_NoDuplicateResults ==
    pipeline # Idle =>
        \A j \in 1..Len(pipeline.batch_results) :
            LET evs == FieldOrNull(pipeline.batch_results[j], "evaluations")
                runs == pipeline.batch_runs[j]
            IN evs.k = "list" =>
                 \A a, b \in 1..Len(evs.v) :
                     FieldOrNull(evs.v[a], "evaluator")
                        = FieldOrNull(evs.v[b], "evaluator")
                     => runs[a] = runs[b]

(***************************************************************************)
(* C26                                                                     *)
(***************************************************************************)
\* C26: every result entry of the data that eval-by-pipeline.py passes to
\* generate_dashboard has the keys evaluator_id, value, label and
\* explanation, and the names under which the page's evaluator table
\* groups the entries are names of evaluators of the experiment.
C26_EntriesHaveEvaluatorId ==
    (pipeline # Idle /\ pc \in {"load", "ready"}) =>
        /\ \A e \in EntryIdx(evaluation_data.v) :
              \A key \in {"evaluator_id", "value", "label", "explanation"} :
                  \E n \in 1..Len(EntryAt(evaluation_data.v, e).v) :
                      EntryAt(evaluation_data.v, e).v[n][1] = key
        /\ pc = "ready" =>
              DOMAIN evaluatorsTable \subseteq
                  { EXPERIMENT_EVALUATORS[n] :
                      n \in 1..Len(EXPERIMENT_EVALUATORS) }

(***************************************************************************)
(* C28                                                                     *)
(***************************************************************************)
\* An entry of a record's metadata that the initial context holds.
FromContext(context, key, val) ==
    key \in DOMAIN context /\ context[key] = val

\* An entry that is a contextual identifier of a mapping above position p.
FromAncestor(d, p, key, val) ==
    /\ key \in {"session_id", "trace_id", "evaluator_name", "evaluator_id"}
    /\ \E n \in 0..(Len(p) - 1) :
          LET above == NodeAt(d, Prefix(p, n))
          IN /\ above.k = "dict"
             /\ \E j \in 1..Len(above.v) : above.v[j] = <<key, val>>

\* An entry that is a scalar field of the record's own mapping.
OwnField(node, key, val) ==
    /\ key \notin {"score", "value", "explanation"}
    /\ val.k \in {"str", "num", "bool"}
    /\ \E j \in 1..Len(node.v) : node.v[j] = <<key, val>>

\* C28: a call of extract_evaluations leaves the caller's context mapping
\* as it was, and every entry of the metadata of a record it returns is an
\* entry of that initial context, a contextual identifier of a mapping
\* above the record, or a scalar field of the record's own mapping:
\* nothing picked up in a sibling branch.
C28_ContextIsolation ==
    [][(pc = "extract" /\ pc' = "extracted") =>
          /\ parent_metadata' = parent_metadata
          /\ LET paths == ReachableRecordPaths(data)
             IN /\ Len(evaluations') = Cardinality(paths)
                /\ \A p \in paths :
                     LET i == 1 + Cardinality(
                                    { q \in paths : VisitBefore(data, q, p) })
                         metadata == evaluations'[i].metadata
                     IN \A key \in DOMAIN metadata :
                          \/ FromContext(parent_metadata, key, metadata[key])
                          \/ FromAncestor(data, p, key, metadata[key])
                          \/ OwnField(NodeAt(data, p), key, metadata[key])]_vars

\* Two sibling branches: the first names a session and the second does
\* not; the record of the second has the initial context only.
C28_Witness ==
    /\ pc = "extracted"
    /\ data.k = "list"
    /\ Len(data.v) = 2
    /\ Len(evaluations) = 2
    /\ parent_metadata = [source_file |-> Str("a.json")]
    /\ "session_id" \in DOMAIN evaluations[1].metadata
    /\ evaluations[1].metadata.session_id = Str("S1")
    /\ DOMAIN evaluations[2].metadata = {"source_file"}

=============================================================================
